---- MODULE Spec2Model ----
(***************************************************************************)
(* A model of py_simple_sql (package dbquery): the connection adapters'    *)
(* nesting counter, the TransactionManager's transaction() scope, the      *)
(* QueryBuilder's clause accumulation and rendering, and the placeholder   *)
(* translation of DB._convert_placeholders.                                *)
(*                                                                         *)
(* Four specifications share the variables:                                *)
(*   SpecConn  any sequence of begin_transaction/commit/rollback calls     *)
(*             made directly on an adapter;                                *)
(*   SpecTx    a caller running nested transaction() scopes whose bodies   *)
(*             may raise and who may catch exceptions between levels;      *)
(*   SpecQB    chains of builder calls followed by to_sql();               *)
(*   SpecConv  DB._convert_placeholders applied to every short SQL text.   *)
(*                                                                         *)
(* The backend's physical commit may raise; begin and rollback of the      *)
(* native client are taken to return.                                      *)
(***************************************************************************)
EXTENDS Integers, Sequences, FiniteSets, TLC

\* ------------------------------------------------------------------ bounds
\* direct adapter calls in one run of SpecConn
MaxCalls == 6
\* deepest nesting of transaction() scopes in SpecTx
MaxDepth == 3
\* transaction() scopes entered in one run of SpecTx
MaxScopes == 3
\* try/except blocks the caller opens in one run of SpecTx
MaxTry == 1
\* longest SQL text, in characters, handed to _convert_placeholders
MaxLen == 5
\* chain calls made on one builder in SpecQB
MaxChain == 3

\* ------------------------------------------------------------- vocabulary
Drivers == {"sqlite", "mysql", "postgresql"}
None == "None"
\* exceptions a scope body raises
BodyExceptions == {"ValueError", "KeyError"}
\* the error the native client raises from a failing physical commit
CommitError == "DatabaseError"

VARIABLES
    driver,     \* DB.driver: the configured backend family
    conn,       \* the Connection: _transaction_level, autocommit, and the
                \* history of calls made on it and of physical operations
    stack,      \* the caller's open blocks, innermost last: "scope" | "try"
    exc,        \* the exception in flight, or None
    script,     \* what the caller has done so far (history)
    query,      \* the SQL text handed to DB._convert_placeholders
    converted,  \* the call of _convert_placeholders: made or not, its result
    builder,    \* the QueryBuilder's fields
    returned,   \* what the last call on the builder returned
    invoked,    \* the last call on the builder, with its arguments
    threads     \* the threads that run a scope each: their positions and
                \* the connections they use

vars == <<driver, conn, stack, exc, script, query, converted,
          builder, returned, invoked, threads>>

NotConverted == [called |-> FALSE, result |-> <<>>]
\* no call has been made on the builder
NoCall == [op |-> "none"]
\* no thread has been started
NoThreads ==
    [shared |-> FALSE, pc |-> <<>>, conns |-> <<>>, owners |-> <<>>,
     sent |-> <<>>]

Max(a, b) == IF a >= b THEN a ELSE b
Last(s) == s[Len(s)]
Front(s) == SubSeq(s, 1, Len(s) - 1)

\* ------------------------------------------------------------- connection
\* Connection.__init__: no transaction open. psycopg2 connections are put
\* in autocommit mode by connect(); the flag is not used by the others.
NewConnection(d) ==
    [transaction_level |-> 0,
     autocommit |-> (d = "postgresql"),
     backend |-> <<>>,
     calls |-> <<>>]

\* begin_transaction: "if self._transaction_level == 1" after the increment
\* faulty variant: every begin_transaction starts a physical transaction
BeginIsPhysicalAlways(level) == TRUE
BeginIsPhysical(level) == level = 1

\* faulty variant: the counter is decremented without the clamp
CommitLevelUnclamped(level) == level - 1
\* commit: "self._transaction_level = max(0, self._transaction_level - 1)"
CommitLevel(level) == Max(0, level - 1)

\* commit: "if self._transaction_level == 0" after the decrement
\* faulty variant: every commit is sent to the backend
CommitIsPhysicalAlways(level) == TRUE
CommitIsPhysical(level) == level = 0

\* rollback: PostgreSQL guards with "if self._transaction_level > 0";
\* SQLite and MySQL roll back unconditionally
RollbackIsPhysical(d, level) == IF d = "postgresql" THEN level > 0 ELSE TRUE

\* rollback: "self._transaction_level = 0"
\* faulty variant: rollback leaves the enclosing levels open
RollbackLevelDecrement(level) == Max(0, level - 1)
RollbackLevel(level) == 0

begin_transaction(c, d) ==
    LET level == c.transaction_level + 1
        physical == BeginIsPhysical(level)
    IN [c EXCEPT
          !.transaction_level = level,
          !.autocommit = IF d = "postgresql" /\ physical THEN FALSE ELSE @,
          !.backend = IF physical THEN Append(@, "BEGIN") ELSE @,
          !.calls = Append(@, [op |-> "begin_transaction",
                               pre |-> c.transaction_level,
                               post |-> level,
                               phys |-> IF physical THEN <<"BEGIN">> ELSE <<>>,
                               raised |-> FALSE])]

\* fail: the native client's commit raises
commit(c, d, fail) ==
    LET level == CommitLevel(c.transaction_level)
        physical == CommitIsPhysical(level)
        raised == physical /\ fail
    IN [c EXCEPT
          !.transaction_level = level,
          !.autocommit = IF d = "postgresql" /\ physical /\ ~raised
                         THEN TRUE ELSE @,
          !.backend = IF physical THEN Append(@, "COMMIT") ELSE @,
          !.calls = Append(@, [op |-> "commit",
                               pre |-> c.transaction_level,
                               post |-> level,
                               phys |-> IF physical THEN <<"COMMIT">> ELSE <<>>,
                               raised |-> raised])]

rollback(c, d) ==
    LET physical == RollbackIsPhysical(d, c.transaction_level)
        level == IF physical THEN RollbackLevel(c.transaction_level)
                 ELSE c.transaction_level
    IN [c EXCEPT
          !.transaction_level = level,
          !.autocommit = IF d = "postgresql" /\ physical THEN TRUE ELSE @,
          !.backend = IF physical THEN Append(@, "ROLLBACK") ELSE @,
          !.calls = Append(@, [op |-> "rollback",
                               pre |-> c.transaction_level,
                               post |-> level,
                               phys |-> IF physical THEN <<"ROLLBACK">> ELSE <<>>,
                               raised |-> FALSE])]

\* ------------------------------------------------------ adapter statements
\* points of one adapter call at which the native client can raise
Faults == {"none", "cursor", "execute", "fetch", "commit"}

\* what one adapter call did: the cursors it opened with
\* self._connection.cursor() and the cursors it closed
CursorUse(method, opened, closed, raised) ==
    [method |-> method, opened |-> opened, closed |-> closed,
     raised |-> raised]

\* execute / execute_many. MySQL and PostgreSQL: "try: cursor = ...cursor();
\* cursor.execute(...) ... finally: if cursor: cursor.close()"; MySQL also
\* commits "if self._transaction_level == 0". SQLite calls
\* self._connection.execute(...) and opens no cursor of its own.
Statement(c, d, method, fault) ==
    LET opened == IF d = "sqlite" \/ fault = "cursor" THEN 0 ELSE 1
        ran == fault \notin {"cursor", "execute"}
        commits == d = "mysql" /\ ran /\ c.transaction_level = 0
        raised == ~ran \/ (commits /\ fault = "commit")
    IN [conn |-> [c EXCEPT !.backend =
                     @ \o (IF ran THEN <<"STATEMENT">> ELSE <<>>)
                       \o (IF commits THEN <<"COMMIT">> ELSE <<>>)],
        result |-> CursorUse(method, opened, opened, raised)]

execute(c, d, fault) == Statement(c, d, "execute", fault)

\* execute_many: MySQL and PostgreSQL return True before opening a cursor
\* "if not bindings_list"; SQLite runs the statement with [[]]
execute_many(c, d, empty, fault) ==
    IF empty /\ d # "sqlite"
    THEN [conn |-> c, result |-> CursorUse("execute_many", 0, 0, FALSE)]
    ELSE Statement(c, d, "execute_many", fault)

\* fetch_all / fetch_one: "cursor = ...cursor(); cursor.execute(...);
\* result = cursor.fetch...(); cursor.close()" as plain statements, no
\* try/finally; SQLite has no cursor.close() at all.
Fetch(d, method, fault) ==
    LET opened == IF fault = "cursor" THEN 0 ELSE 1
        raised == fault \in {"cursor", "execute", "fetch"}
        closed == IF d = "sqlite" \/ raised THEN 0 ELSE 1
    IN CursorUse(method, opened, closed, raised)

fetch_all(d, fault) == Fetch(d, "fetch_all", fault)

fetch_one(d, fault) == Fetch(d, "fetch_one", fault)

\* ------------------------------------------------------------ QueryBuilder
\* SQL text the builder assembles is a sequence of tokens; the blanks and
\* the ", " of the f-strings are left out, a "," token stands for ", ".
\* A Python value that may be None or a number is a record with its type.
PyNone == [type |-> "NoneType", val |-> 0]
PyInt(n) == [type |-> "int", val |-> n]

\* QueryBuilder.__init__ followed by table(t), or alone when t is None
NewBuilder(t) ==
    [table |-> t,
     columns |-> <<"*">>,
     where_clauses |-> <<>>,
     bindings |-> <<>>,
     join_clauses |-> <<>>,
     order_by_clauses |-> <<>>,
     limit |-> PyNone,
     offset |-> PyNone,
     group_by |-> <<>>,
     having_clauses |-> <<>>]

\* a chain method returns the builder itself
Self == [kind |-> "self"]

\* Connection.get_placeholder
get_placeholder(d) == IF d = "sqlite" THEN "?" ELSE "%s"

\* sep.join(parts), parts a sequence of token sequences
RECURSIVE Join(_, _)
Join(sep, parts) ==
    IF parts = <<>> THEN <<>>
    ELSE IF Len(parts) = 1 THEN parts[1]
    ELSE parts[1] \o <<sep>> \o Join(sep, Tail(parts))

RECURSIVE Flatten(_)
Flatten(ss) == IF ss = <<>> THEN <<>> ELSE Head(ss) \o Flatten(Tail(ss))

\* where(column, operator_or_value, value=None): a clause is the tuple
\* (column, operator, value); the column is kept as a one-token text
where(b, column, operator_or_value, value) ==
    LET v == IF value = None THEN operator_or_value ELSE value
        operator == IF value = None THEN "=" ELSE operator_or_value
    IN [b EXCEPT
          !.where_clauses = Append(@, << <<column>>, operator, v >>),
          !.bindings = Append(@, v)]

\* having(column, operator_or_value, value=None)
having(b, column, operator_or_value, value) ==
    LET v == IF value = None THEN operator_or_value ELSE value
        operator == IF value = None THEN "=" ELSE operator_or_value
    IN [b EXCEPT
          !.having_clauses = Append(@, <<column, operator, v>>),
          !.bindings = Append(@, v)]

\* the text "column IN (p, ..., p)" with one placeholder per value
InFragment(column, keyword, n, p) ==
    <<column>> \o keyword \o <<"(">>
        \o Join(",", [i \in 1..n |-> <<p>>]) \o <<")">>

\* faulty variant: no list is taken for empty
NoValuesNever(values) == FALSE
\* "if not values"
NoValues(values) == values = <<>>

\* where_in / where_not_in: keyword is <<"IN">> or <<"NOT", "IN">>
where_in(b, d, column, keyword, values) ==
    IF NoValues(values) THEN b
    ELSE [b EXCEPT
            !.where_clauses =
                Append(@, <<InFragment(column, keyword, Len(values),
                                       get_placeholder(d)), None, None>>),
            !.bindings = @ \o values]

\* the loop body of _build_where_clause: the parts one clause adds
WherePart(clause, p) ==
    IF Len(clause) = 3
    THEN IF clause[2] # None
         THEN << clause[1] \o <<clause[2], p>> >>
         ELSE <<>>
    ELSE << clause[1] >>

_build_where_clause(b, d) ==
    IF b.where_clauses = <<>> THEN <<>>
    ELSE Join("AND",
              Flatten([k \in 1..Len(b.where_clauses) |->
                          WherePart(b.where_clauses[k], get_placeholder(d))]))

JoinKeyword(join_type) ==
    IF join_type = "inner" THEN <<"JOIN">>
    ELSE IF join_type = "left" THEN <<"LEFT", "JOIN">>
    ELSE <<"RIGHT", "JOIN">>

\* a join clause is (type, table, first, operator, second)
JoinSection(b) ==
    Flatten([k \in 1..Len(b.join_clauses) |->
        LET j == b.join_clauses[k] IN
        IF j[1] \in {"inner", "left", "right"}
        THEN JoinKeyword(j[1]) \o <<j[2], "ON", j[3], j[4], j[5]>>
        ELSE <<>>])

WhereSection(b, d) ==
    IF b.where_clauses # <<>>
    THEN <<"WHERE">> \o _build_where_clause(b, d) ELSE <<>>

GroupBySection(b) ==
    IF b.group_by # <<>>
    THEN <<"GROUP", "BY">>
            \o Join(",", [k \in 1..Len(b.group_by) |-> <<b.group_by[k]>>])
    ELSE <<>>

HavingSection(b, d) ==
    IF b.having_clauses # <<>>
    THEN <<"HAVING">>
            \o Join("AND", [k \in 1..Len(b.having_clauses) |->
                   <<b.having_clauses[k][1], b.having_clauses[k][2],
                     get_placeholder(d)>>])
    ELSE <<>>

OrderBySection(b) ==
    IF b.order_by_clauses # <<>>
    THEN <<"ORDER", "BY">>
            \o Join(",", [k \in 1..Len(b.order_by_clauses) |->
                   <<b.order_by_clauses[k][1], b.order_by_clauses[k][2]>>])
    ELSE <<>>

\* a Python string of digits, which is no int
PyStr(n) == [type |-> "str", val |-> n]
\* faulty variant: every value passes for a non-negative integer
IsNonNegativeIntAlways(x) == TRUE
\* "isinstance(x, int) and x >= 0"
IsNonNegativeInt(x) == x.type = "int" /\ x.val >= 0

\* faulty variant: the LIMIT section is left out
LimitSectionOmitted(b) == <<>>
LimitSection(b) ==
    IF b.limit # PyNone THEN <<"LIMIT", ToString(b.limit.val)>> ELSE <<>>

OffsetSection(b) ==
    IF b.offset # PyNone THEN <<"OFFSET", ToString(b.offset.val)>> ELSE <<>>

\* faulty variant: the table name is never found missing
TableMissingNever(b) == FALSE
\* "not self._table"
TableMissing(b) == b.table = None

\* faulty variant: HAVING is written before GROUP BY and OFFSET before LIMIT
SectionsMisplaced(b, d) ==
    JoinSection(b) \o WhereSection(b, d) \o HavingSection(b, d)
        \o GroupBySection(b) \o OrderBySection(b) \o OffsetSection(b)
        \o LimitSection(b)
\* the sections appended to "SELECT ... FROM table", in the order of the
\* statements of _build_select_query
Sections(b, d) ==
    JoinSection(b) \o WhereSection(b, d) \o GroupBySection(b)
        \o HavingSection(b, d) \o OrderBySection(b) \o LimitSection(b)
        \o OffsetSection(b)

\* _build_select_query: (query, self._bindings), or the ValueError raised
_build_select_query(b, d) ==
    IF TableMissing(b)
    THEN [raised |-> "ValueError: Table name is required",
          sql |-> <<>>, bindings |-> <<>>]
    ELSE IF b.limit # PyNone /\ ~IsNonNegativeInt(b.limit)
    THEN [raised |-> "ValueError: LIMIT value must be a non-negative integer.",
          sql |-> <<>>, bindings |-> <<>>]
    ELSE IF b.offset # PyNone /\ ~IsNonNegativeInt(b.offset)
    THEN [raised |-> "ValueError: OFFSET value must be a non-negative integer.",
          sql |-> <<>>, bindings |-> <<>>]
    ELSE [raised |-> None,
          sql |-> <<"SELECT">>
                    \o Join(",", [k \in 1..Len(b.columns) |-> <<b.columns[k]>>])
                    \o <<"FROM", b.table>>
                    \o Sections(b, d),
          bindings |-> b.bindings]

\* to_sql
to_sql(b, d) ==
    [kind |-> "to_sql", calls |-> <<>>] @@ _build_select_query(b, d)

\* ---- the operations that call the backend.  Each gives the builder after
\* the call and what the caller sees: the exception raised or the value
\* returned, and the calls made on the connection, in order.
\* the error a connection method raises when the database refuses
BackendError == "DatabaseError"
\* subscripting the None that fetch_one returns for an empty result
NoRowError == "TypeError: 'NoneType' object is not subscriptable"
Call(method, sql, bindings) ==
    [method |-> method, sql |-> sql, bindings |-> bindings]
Outcome(b, kind, raised, value, calls) ==
    [builder |-> b,
     returned |-> [kind |-> kind, raised |-> raised, value |-> value,
                   calls |-> calls]]

\* get(): fetched is what connection.fetch_all does, a record
\* [raised, found, val]
get(b, d, fetched) ==
    LET q == _build_select_query(b, d) IN
    IF q.raised # None THEN Outcome(b, "get", q.raised, None, <<>>)
    ELSE IF fetched.raised # None
    THEN Outcome(b, "get", fetched.raised, None,
                 <<Call("fetch_all", q.sql, q.bindings)>>)
    ELSE Outcome(b, "get", None, fetched.val,
                 <<Call("fetch_all", q.sql, q.bindings)>>)

\* first(): the limit is set to 1, and set back after fetch_one returned
first(b, d, fetched) ==
    LET original_limit == b.limit
        b1 == [b EXCEPT !.limit = PyInt(1)]
        q == _build_select_query(b1, d)
    IN IF q.raised # None THEN Outcome(b1, "first", q.raised, None, <<>>)
       ELSE IF fetched.raised # None
       THEN Outcome(b1, "first", fetched.raised, None,
                    <<Call("fetch_one", q.sql, q.bindings)>>)
       ELSE Outcome([b1 EXCEPT !.limit = original_limit], "first", None,
                    fetched.val, <<Call("fetch_one", q.sql, q.bindings)>>)

\* exists(): the columns are set to "1", and set back after fetch_one
\* returned; the result is bool(result["exists_flag"])
exists(b, d, fetched) ==
    LET original_columns == b.columns
        b1 == [b EXCEPT !.columns = <<"1">>]
        q == _build_select_query(b1, d)
        exists_sql == <<"SELECT", "EXISTS", "(">> \o q.sql
                          \o <<")", "as", "exists_flag">>
        restored == [b1 EXCEPT !.columns = original_columns]
    IN IF q.raised # None THEN Outcome(b1, "exists", q.raised, None, <<>>)
       ELSE IF fetched.raised # None
       THEN Outcome(b1, "exists", fetched.raised, None,
                    <<Call("fetch_one", exists_sql, q.bindings)>>)
       ELSE IF ~fetched.found
       THEN Outcome(restored, "exists", NoRowError, None,
                    <<Call("fetch_one", exists_sql, q.bindings)>>)
       ELSE Outcome(restored, "exists", None, fetched.val # 0,
                    <<Call("fetch_one", exists_sql, q.bindings)>>)

\* faulty variant: the column is selected as it is
AggregateColumnBare(function, column) == column
\* f"{function}({column}) as aggregate"
AggregateColumn(function, column) ==
    function \o "(" \o column \o ") as aggregate"

\* _aggregate(function, column), called by count, max, min, avg and sum
_aggregate(b, d, function, column, fetched) ==
    LET original_columns == b.columns
        b1 == [b EXCEPT !.columns = <<AggregateColumn(function, column)>>]
        q == _build_select_query(b1, d)
        restored == [b1 EXCEPT !.columns = original_columns]
    IN IF q.raised # None THEN Outcome(b1, "aggregate", q.raised, None, <<>>)
       ELSE IF fetched.raised # None
       THEN Outcome(b1, "aggregate", fetched.raised, None,
                    <<Call("fetch_one", q.sql, q.bindings)>>)
       ELSE IF ~fetched.found
       THEN Outcome(restored, "aggregate", NoRowError, None,
                    <<Call("fetch_one", q.sql, q.bindings)>>)
       ELSE Outcome(restored, "aggregate", None, fetched.val,
                    <<Call("fetch_one", q.sql, q.bindings)>>)

\* select(*columns) and limit(limit)
select(b, columns) ==
    IF columns # <<>> THEN [b EXCEPT !.columns = columns] ELSE b
limit(b, n) == [b EXCEPT !.limit = n]
\* direction.lower(), for the directions of the model
Lower(direction) == IF direction = "DESC" THEN "desc" ELSE direction
\* order_by(column, direction="asc")
order_by(b, column, direction) ==
    [b EXCEPT !.order_by_clauses = Append(@, <<column, Lower(direction)>>)]
\* _add_join, called by join, left_join and right_join
_add_join(b, type_, table, first_, operator, second) ==
    [b EXCEPT !.join_clauses =
        Append(@, <<type_, table, first_, operator, second>>)]
\* group_by(*columns)
group_by(b, columns) == [b EXCEPT !.group_by = @ \o columns]
\* offset(offset)
offset(b, n) == [b EXCEPT !.offset = n]

\* a dict is the sequence of its (key, value) pairs in insertion order
Keys(row) == {row[k][1] : k \in 1..Len(row)}
Value(row, col) == row[CHOOSE k \in 1..Len(row) : row[k][1] = col][2]
\* the column names of the model in sorted order
ColumnOrder == <<"a", "b">>
\* faulty variant: the keys in the order the row holds them
Unsorted(row) == [k \in 1..Len(row) |-> row[k][1]]
\* tuple(sorted(row.keys()))
Sorted(row) == SelectSeq(ColumnOrder, LAMBDA c : c \in Keys(row))

\* faulty variant: no data is taken for empty
IsEmptyDataNever(data) == FALSE
\* "not data", for a dict or a list of dicts
IsEmptyData(data) ==
    IF data.type = "dict" THEN data.rows[1] = <<>> ELSE data.rows = <<>>

\* update(data): executed is what connection.execute does, [raised, val]
update(b, d, data, executed) ==
    IF IsEmptyData([type |-> "dict", rows |-> <<data>>])
    THEN Outcome(b, "update", None, FALSE, <<>>)
    ELSE
      LET placeholder == get_placeholder(d)
          set_clauses == [k \in 1..Len(data) |->
                             <<data[k][1], "=", placeholder>>]
          values == [k \in 1..Len(data) |-> data[k][2]]
          sql == <<"UPDATE", b.table, "SET">> \o Join(",", set_clauses)
                    \o WhereSection(b, d)
          bindings == IF b.where_clauses # <<>> THEN values \o b.bindings
                      ELSE values
      IN Outcome(b, "update", executed.raised, executed.val,
                 <<Call("execute", sql, bindings)>>)

\* delete()
delete(b, d, executed) ==
    Outcome(b, "delete", executed.raised, executed.val,
            <<Call("execute", <<"DELETE", "FROM", b.table>> \o WhereSection(b, d),
                   b.bindings)>>)

\* the keys of grouped_data, in the order the defaultdict got them
RECURSIVE GroupKeys(_)
GroupKeys(rows) ==
    IF rows = <<>> THEN <<>>
    ELSE LET before == GroupKeys(Front(rows))
             column_tuple == Sorted(Last(rows))
         IN IF \E i \in 1..Len(before) : before[i] = column_tuple
            THEN before ELSE Append(before, column_tuple)
\* "if len(rows) == 1" execute, else execute_many
InsertMethod(rows) == IF Len(rows) = 1 THEN "execute" ELSE "execute_many"
\* the statement of one group: its rows are the rows with these columns
InsertStatement(b, d, columns, data) ==
    LET rows == SelectSeq(data, LAMBDA r : Sorted(r) = columns)
        sql == <<"INSERT", "INTO", b.table, "(">>
                  \o Join(",", [k \in 1..Len(columns) |-> <<columns[k]>>])
                  \o <<")", "VALUES", "(">>
                  \o Join(",", [k \in 1..Len(columns) |->
                                   <<get_placeholder(d)>>])
                  \o <<")">>
        bindings_list == [i \in 1..Len(rows) |->
                            [k \in 1..Len(columns) |->
                                Value(rows[i], columns[k])]]
    IN IF InsertMethod(rows) = "execute"
       THEN Call("execute", sql, bindings_list[1])
       ELSE Call("execute_many", sql, bindings_list)
\* the statements insert() sends when none raises: groups without columns
\* are skipped
InsertStatements(b, d, data) ==
    LET groups == SelectSeq(GroupKeys(data), LAMBDA c : c # <<>>) IN
    [g \in 1..Len(groups) |-> InsertStatement(b, d, groups[g], data)]
\* insert(data): data is [type, rows], a dict being one row; fails is the
\* number of the statement that raises, 0 when none does
insert(b, d, data, fails) ==
    IF IsEmptyData(data) THEN Outcome(b, "insert", None, FALSE, <<>>)
    ELSE LET statements == InsertStatements(b, d, data.rows) IN
         IF fails \in 1..Len(statements)
         THEN Outcome(b, "insert", BackendError, None,
                      SubSeq(statements, 1, fails))
         ELSE Outcome(b, "insert", None, TRUE, statements)

\* ------------------------------------------ SpecConn: direct adapter calls
InitConn ==
    /\ driver \in Drivers
    /\ conn = NewConnection(driver)
    /\ stack = <<>>
    /\ exc = None
    /\ script = <<>>
    /\ query = <<>>
    /\ converted = NotConverted
    /\ builder = NewBuilder(None)
    /\ returned = Self
    /\ invoked = NoCall
    /\ threads = NoThreads

CallBegin ==
    /\ Len(conn.calls) < MaxCalls
    /\ conn' = begin_transaction(conn, driver)
    /\ UNCHANGED <<threads, invoked, driver, stack, exc, script, query, converted, builder, returned>>

CallCommit ==
    /\ Len(conn.calls) < MaxCalls
    /\ \E fail \in BOOLEAN : conn' = commit(conn, driver, fail)
    /\ UNCHANGED <<threads, invoked, driver, stack, exc, script, query, converted, builder, returned>>

CallRollback ==
    /\ Len(conn.calls) < MaxCalls
    /\ conn' = rollback(conn, driver)
    /\ UNCHANGED <<threads, invoked, driver, stack, exc, script, query, converted, builder, returned>>

NextConn == CallBegin \/ CallCommit \/ CallRollback

SpecConn == InitConn /\ [][NextConn]_vars

\* --------------------------------- SpecTx: TransactionManager.transaction
InitTx == InitConn

Depth == Cardinality({i \in 1..Len(stack) : stack[i] = "scope"})
Entered(step) == Cardinality({i \in 1..Len(script) : script[i] = step})

\* "with tm.transaction():" -- try: self.connection.begin_transaction(); yield
EnterScope ==
    /\ exc = None
    /\ Depth < MaxDepth
    /\ Entered("enter") < MaxScopes
    /\ conn' = begin_transaction(conn, driver)
    /\ stack' = Append(stack, "scope")
    /\ script' = Append(script, "enter")
    /\ UNCHANGED <<threads, invoked, driver, exc, query, converted, builder, returned>>

\* the body of the innermost block raises
BodyRaise ==
    /\ exc = None
    /\ stack # <<>>
    /\ \E e \in BodyExceptions :
          /\ exc' = e
          /\ script' = Append(script, e)
    /\ UNCHANGED <<threads, invoked, driver, conn, stack, query, converted, builder, returned>>

\* faulty variant: the scope is left without a commit
ExitScopeNoCommit ==
    /\ exc = None
    /\ stack # <<>> /\ Last(stack) = "scope"
    /\ stack' = Front(stack)
    /\ script' = Append(script, "exit")
    /\ UNCHANGED <<threads, invoked, driver, conn, exc, query, converted, builder, returned>>

\* the body returns: self.connection.commit(); when commit raises, the
\* except branch runs: self.connection.rollback(); raise e
ExitScope ==
    /\ exc = None
    /\ stack # <<>> /\ Last(stack) = "scope"
    /\ \E fail \in BOOLEAN :
          LET c == commit(conn, driver, fail) IN
          IF Last(c.calls).raised
          THEN /\ conn' = rollback(c, driver)
               /\ exc' = CommitError
          ELSE /\ conn' = c
               /\ exc' = exc
    /\ stack' = Front(stack)
    /\ script' = Append(script, "exit")
    /\ UNCHANGED <<threads, invoked, driver, query, converted, builder, returned>>

\* faulty variant: the except branch re-raises without rolling back
ExceptScopeNoRollback ==
    /\ exc # None
    /\ stack # <<>> /\ Last(stack) = "scope"
    /\ stack' = Front(stack)
    /\ UNCHANGED <<threads, invoked, driver, conn, exc, script, query, converted, builder, returned>>

\* an exception leaves the body of a scope:
\* except Exception as e: self.connection.rollback(); raise e
ExceptScope ==
    /\ exc # None
    /\ stack # <<>> /\ Last(stack) = "scope"
    /\ conn' = rollback(conn, driver)
    /\ stack' = Front(stack)
    /\ UNCHANGED <<threads, invoked, driver, exc, script, query, converted, builder, returned>>

\* the caller's own try/except around part of a body
EnterTry ==
    /\ exc = None
    /\ Entered("try") < MaxTry
    /\ stack' = Append(stack, "try")
    /\ script' = Append(script, "try")
    /\ UNCHANGED <<threads, invoked, driver, conn, exc, query, converted, builder, returned>>

ExitTry ==
    /\ exc = None
    /\ stack # <<>> /\ Last(stack) = "try"
    /\ stack' = Front(stack)
    /\ script' = Append(script, "endtry")
    /\ UNCHANGED <<threads, invoked, driver, conn, exc, query, converted, builder, returned>>

Catch ==
    /\ exc # None
    /\ stack # <<>> /\ Last(stack) = "try"
    /\ exc' = None
    /\ stack' = Front(stack)
    /\ script' = Append(script, "catch")
    /\ UNCHANGED <<threads, invoked, driver, conn, query, converted, builder, returned>>

NextTx ==
    \/ EnterScope \/ BodyRaise \/ ExitScope \/ ExceptScope
    \/ EnterTry \/ ExitTry \/ Catch

SpecTx == InitTx /\ [][NextTx]_vars

\* the caller's program has run to its end: every block is closed
Finished == stack = <<>>
\* the exception that reached the caller, if any
Propagated == IF stack = <<>> THEN exc ELSE None

Ops(c) == [i \in 1..Len(c.calls) |-> c.calls[i].op]
Levels(c) ==
    [i \in 1..(Len(c.calls) + 1) |->
        IF i = 1 THEN 0 ELSE c.calls[i - 1].post]
Count(s, x) == Cardinality({i \in 1..Len(s) : s[i] = x})

\* ------------------------------------- SpecConv: DB._convert_placeholders
\* SQL text is a sequence of characters; "a" stands for every character the
\* scanner does not look at
\* the backtick, U+0060, which a TLA+ string cannot hold
Backtick == "backtick"
Backslash == "\\"
Alphabet == {"?", "'", "\"", Backtick, Backslash, "a"}
Quotes == {"'", "\""}
Texts == UNION {[1..n -> Alphabet] : n \in 0..MaxLen}

\* faulty variant: the character before a quote is not looked at
NotAfterBackslashIgnored(q, i) == TRUE
\* "i == 0 or query[i-1] is no backslash"
NotAfterBackslash(q, i) == i = 1 \/ q[i - 1] # Backslash

\* faulty variant: any quote closes the string that is open
ClosesStringAny(string_char, char) == TRUE
\* "elif string_char == char": only the quote that opened the string
\* closes it
ClosesString(string_char, char) == string_char = char

\* faulty variant: the character is not copied
CopyDropped(result, char) == result
\* "result += char" at the end of the loop body
Copy(result, char) == Append(result, char)

\* one pass of the while loop from index i (1-based) to the end
RECURSIVE Scan(_, _, _, _, _, _)
Scan(q, i, in_string, in_identifier, string_char, result) ==
    IF i > Len(q) THEN result
    ELSE
      LET char == q[i] IN
      IF char \in Quotes /\ NotAfterBackslash(q, i)
      THEN IF ~in_string
           THEN Scan(q, i + 1, TRUE, in_identifier, char,
                     Copy(result, char))
           ELSE IF ClosesString(string_char, char)
           THEN Scan(q, i + 1, FALSE, in_identifier, string_char,
                     Copy(result, char))
           ELSE Scan(q, i + 1, in_string, in_identifier, string_char,
                     Copy(result, char))
      ELSE IF char = Backtick /\ NotAfterBackslash(q, i)
      THEN Scan(q, i + 1, in_string, ~in_identifier, string_char,
                Copy(result, char))
      ELSE IF char = "?" /\ ~in_string /\ ~in_identifier
      THEN Scan(q, i + 1, in_string, in_identifier, string_char,
                result \o <<"%", "s">>)
      ELSE Scan(q, i + 1, in_string, in_identifier, string_char,
                Copy(result, char))

\* faulty variant: the texts of every driver are scanned
IsSqliteNever(d) == FALSE
\* "if self.driver == "sqlite": return query"
IsSqlite(d) == d = "sqlite"

\* DB._convert_placeholders: SQLite texts are returned as they are
ConvertPlaceholders(d, q) ==
    IF IsSqlite(d) THEN q
    ELSE Scan(q, 1, FALSE, FALSE, None, <<>>)

InitConv ==
    /\ driver \in Drivers
    /\ conn = NewConnection(driver)
    /\ stack = <<>>
    /\ exc = None
    /\ script = <<>>
    /\ query \in Texts
    /\ converted = NotConverted
    /\ builder = NewBuilder(None)
    /\ returned = Self
    /\ invoked = NoCall
    /\ threads = NoThreads

Convert ==
    /\ ~converted.called
    /\ converted' = [called |-> TRUE,
                     result |-> ConvertPlaceholders(driver, query)]
    /\ UNCHANGED <<threads, invoked, driver, conn, stack, exc, script, query, builder, returned>>

NextConv == Convert

SpecConv == InitConv /\ [][NextConv]_vars

\* --------------------------------------------- SpecQB: chains on a builder
Tables == {None, "users"}
\* columns given to where(), to having() and to where_in()/where_not_in()
Columns == {"a", "b"}
HavingColumns == {"n"}
InColumns == {"id"}
\* second and third argument of where() and having(): the three-argument
\* form, the two-argument form, and the three-argument form with a None value
ArgPairs == {<<">", "v2">>, <<"v1", None>>, <<">", None>>}
\* value lists of where_in() and where_not_in()
ValueLists == {<<>>, <<"v1">>, <<"v1", "v2">>}

InitQB ==
    /\ driver \in Drivers
    /\ conn = NewConnection(driver)
    /\ stack = <<>>
    /\ exc = None
    /\ script = <<>>
    /\ query = <<>>
    /\ converted = NotConverted
    /\ builder \in {NewBuilder(t) : t \in Tables}
    /\ returned = Self
    /\ invoked = NoCall
    /\ threads = NoThreads

\* the chain calls made so far that added something
ChainLength == Len(builder.where_clauses) + Len(builder.having_clauses)

Where ==
    /\ ChainLength < MaxChain
    /\ \E column \in Columns, args \in ArgPairs :
          builder' = where(builder, column, args[1], args[2])
    /\ returned' = Self
    /\ UNCHANGED <<threads, invoked, driver, conn, stack, exc, script, query, converted>>

Having ==
    /\ ChainLength < MaxChain
    /\ \E column \in HavingColumns, args \in ArgPairs :
          builder' = having(builder, column, args[1], args[2])
    /\ returned' = Self
    /\ UNCHANGED <<threads, invoked, driver, conn, stack, exc, script, query, converted>>

WhereIn ==
    /\ ChainLength < MaxChain
    /\ \E column \in InColumns, values \in ValueLists :
          builder' = where_in(builder, driver, column, <<"IN">>, values)
    /\ returned' = Self
    /\ UNCHANGED <<threads, invoked, driver, conn, stack, exc, script, query, converted>>

WhereNotIn ==
    /\ ChainLength < MaxChain
    /\ \E column \in InColumns, values \in ValueLists :
          builder' = where_in(builder, driver, column, <<"NOT", "IN">>, values)
    /\ returned' = Self
    /\ UNCHANGED <<threads, invoked, driver, conn, stack, exc, script, query, converted>>

ToSql ==
    /\ returned' = to_sql(builder, driver)
    /\ UNCHANGED <<threads, invoked, driver, conn, stack, exc, script, query, converted, builder>>

NextQB == Where \/ Having \/ WhereIn \/ WhereNotIn \/ ToSql

SpecQB == InitQB /\ [][NextQB]_vars

\* --------------------------------- SpecSelect: the reading operations
\* at most MaxFilter where() calls before a read
MaxFilter == 1
ColumnLists == {<<>>, <<"id", "name">>}
Limits == {PyInt(2), PyInt(-1)}
\* what fetch_one and fetch_all can do: raise, return no row, return a
\* row; empty stands where no value is returned
Fetches(empty, vals) ==
    {[raised |-> BackendError, found |-> FALSE, val |-> empty],
     [raised |-> None, found |-> FALSE, val |-> empty]}
        \cup {[raised |-> None, found |-> TRUE, val |-> v] : v \in vals}
RowFetches == Fetches(None, {"row"})
FlagFetches == Fetches(0, {0, 1})
ValueFetches == Fetches(None, {"3"})
ListFetches ==
    {f \in Fetches(<<>>, {<<>>, <<"row">>}) : f.raised # None \/ f.found}
\* count(column="*"), max(column), min(column), avg(column), sum(column)
AggregateCalls ==
    {<<"COUNT", "*">>, <<"MAX", "id">>, <<"MIN", "id">>, <<"AVG", "id">>,
     <<"SUM", "id">>}

InitSelect == InitQB

Select ==
    /\ \E columns \in ColumnLists : builder' = select(builder, columns)
    /\ returned' = Self
    /\ UNCHANGED <<threads, invoked, driver, conn, stack, exc, script, query, converted>>

Limit ==
    /\ \E n \in Limits : builder' = limit(builder, n)
    /\ returned' = Self
    /\ UNCHANGED <<threads, invoked, driver, conn, stack, exc, script, query, converted>>

FilterWhere == ChainLength < MaxFilter /\ Where

Get ==
    /\ \E fetched \in ListFetches :
          LET r == get(builder, driver, fetched) IN
          builder' = r.builder /\ returned' = r.returned
    /\ UNCHANGED <<threads, invoked, driver, conn, stack, exc, script, query, converted>>

First ==
    /\ \E fetched \in RowFetches :
          LET r == first(builder, driver, fetched) IN
          builder' = r.builder /\ returned' = r.returned
    /\ UNCHANGED <<threads, invoked, driver, conn, stack, exc, script, query, converted>>

Exists ==
    /\ \E fetched \in FlagFetches :
          LET r == exists(builder, driver, fetched) IN
          builder' = r.builder /\ returned' = r.returned
    /\ UNCHANGED <<threads, invoked, driver, conn, stack, exc, script, query, converted>>

Aggregate ==
    /\ \E call \in AggregateCalls, fetched \in ValueFetches :
          LET r == _aggregate(builder, driver, call[1], call[2], fetched) IN
          builder' = r.builder /\ returned' = r.returned
    /\ UNCHANGED <<threads, invoked, driver, conn, stack, exc, script, query, converted>>

NextSelect ==
    \/ Select \/ Limit \/ FilterWhere
    \/ ToSql \/ Get \/ First \/ Exists \/ Aggregate

SpecSelect == InitSelect /\ [][NextSelect]_vars

\* ------------------------------ SpecWrite: update and delete on a chain
\* at most MaxPreds predicates before an update or a delete
MaxPreds == 2
\* the dicts given to update() and, as rows, to insert()
Dicts ==
    {<<>>, << <<"a", "1">> >>, << <<"b", "2">>, <<"a", "3">> >>,
     << <<"a", "4">>, <<"b", "5">> >>}
\* what connection.execute does: raise, or return True
Executes ==
    {[raised |-> BackendError, val |-> FALSE], [raised |-> None, val |-> TRUE]}

InitWrite == InitQB

PredWhere == ChainLength < MaxPreds /\ Where
PredHaving == ChainLength < MaxPreds /\ Having
PredWhereIn == ChainLength < MaxPreds /\ WhereIn
PredWhereNotIn == ChainLength < MaxPreds /\ WhereNotIn

Update ==
    /\ \E data \in Dicts, executed \in Executes :
          LET r == update(builder, driver, data, executed) IN
          /\ builder' = r.builder
          /\ returned' = r.returned
          /\ invoked' = [op |-> "update", data |-> data]
    /\ UNCHANGED <<threads, driver, conn, stack, exc, script, query, converted>>

Delete ==
    /\ \E executed \in Executes :
          LET r == delete(builder, driver, executed) IN
          /\ builder' = r.builder
          /\ returned' = r.returned
          /\ invoked' = [op |-> "delete"]
    /\ UNCHANGED <<threads, driver, conn, stack, exc, script, query, converted>>

NextWrite ==
    \/ PredWhere \/ PredHaving \/ PredWhereIn \/ PredWhereNotIn
    \/ Update \/ Delete

SpecWrite == InitWrite /\ [][NextWrite]_vars

\* ------------------- SpecInsert: insert, update, delete on a new builder
\* at most MaxRows rows in the list given to insert()
MaxRows == 2
InsertData ==
    {[type |-> "dict", rows |-> <<row>>] : row \in Dicts}
        \cup {[type |-> "list", rows |-> rows] :
                  rows \in UNION {[1..n -> Dicts] : n \in 0..MaxRows}}

\* the statement that raises: none, the first, the second
FailAt == {0, 1, 2}

InitInsert == InitQB

Insert ==
    /\ \E data \in InsertData, fails \in FailAt :
          LET r == insert(builder, driver, data, fails) IN
          /\ builder' = r.builder
          /\ returned' = r.returned
          /\ invoked' = [op |-> "insert", data |-> data]
    /\ UNCHANGED <<threads, driver, conn, stack, exc, script, query, converted>>

NextInsert == Insert \/ Update \/ Delete

SpecInsert == InitInsert /\ [][NextInsert]_vars

\* ----------------------- SpecChain: the calls that add WHERE predicates
\* where(column, v), where(column, op, v) and where(column, op, None)
WhereCalls ==
    {[nargs |-> 2, x |-> "v1", y |-> None],
     [nargs |-> 3, x |-> ">", y |-> "v2"],
     [nargs |-> 3, x |-> ">", y |-> None]}

InitChain == InitQB

\* the two-argument form leaves value at its default, None
CallWhere ==
    /\ ChainLength < MaxPreds
    /\ \E column \in Columns, call \in WhereCalls :
          /\ builder' = where(builder, column, call.x, call.y)
          /\ invoked' = [op |-> "where", column |-> column,
                         nargs |-> call.nargs, x |-> call.x, y |-> call.y]
    /\ returned' = Self
    /\ UNCHANGED <<threads, driver, conn, stack, exc, script, query, converted>>

CallWhereIn ==
    /\ ChainLength < MaxPreds
    /\ \E column \in InColumns, values \in ValueLists :
          /\ builder' = where_in(builder, driver, column, <<"IN">>, values)
          /\ invoked' = [op |-> "where_in", column |-> column,
                         values |-> values]
    /\ returned' = Self
    /\ UNCHANGED <<threads, driver, conn, stack, exc, script, query, converted>>

CallWhereNotIn ==
    /\ ChainLength < MaxPreds
    /\ \E column \in InColumns, values \in ValueLists :
          /\ builder' = where_in(builder, driver, column, <<"NOT", "IN">>,
                                 values)
          /\ invoked' = [op |-> "where_not_in", column |-> column,
                         values |-> values]
    /\ returned' = Self
    /\ UNCHANGED <<threads, driver, conn, stack, exc, script, query, converted>>

NextChain == CallWhere \/ CallWhereIn \/ CallWhereNotIn

SpecChain == InitChain /\ [][NextChain]_vars

\* ------------------------- SpecPage: limit and offset before a read
\* the values given to limit() and offset(): 2, -1 and the string "2"
Pages == {PyInt(2), PyInt(-1), PyStr(2)}

InitPage ==
    /\ driver \in Drivers
    /\ conn = NewConnection(driver)
    /\ stack = <<>>
    /\ exc = None
    /\ script = <<>>
    /\ query = <<>>
    /\ converted = NotConverted
    /\ builder = NewBuilder("users")
    /\ returned = Self
    /\ invoked = NoCall
    /\ threads = NoThreads

PageWhere ==
    /\ ChainLength < MaxFilter
    /\ builder' = where(builder, "a", "v1", None)
    /\ returned' = Self
    /\ UNCHANGED <<threads, invoked, driver, conn, stack, exc, script, query, converted>>

PageLimit ==
    /\ \E n \in Pages : builder' = limit(builder, n)
    /\ returned' = Self
    /\ UNCHANGED <<threads, invoked, driver, conn, stack, exc, script, query, converted>>

PageOffset ==
    /\ \E n \in Pages : builder' = offset(builder, n)
    /\ returned' = Self
    /\ UNCHANGED <<threads, invoked, driver, conn, stack, exc, script, query, converted>>

NextPage ==
    \/ PageWhere \/ PageLimit \/ PageOffset
    \/ ToSql \/ Get \/ First \/ Exists \/ Aggregate

SpecPage == InitPage /\ [][NextPage]_vars

\* -------------- SpecSections: every clause kind before exists / aggregate
\* at most MaxClauses clauses in all on one builder
MaxClauses == 2
JoinTypes == {"inner", "left"}

InitSections == InitPage

ClauseCount ==
    Len(builder.where_clauses) + Len(builder.having_clauses)
        + Len(builder.join_clauses) + Len(builder.group_by)
        + Len(builder.order_by_clauses)

SecWhere ==
    /\ ClauseCount < MaxClauses
    /\ builder' = where(builder, "a", ">", "v2")
    /\ returned' = Self
    /\ UNCHANGED <<threads, invoked, driver, conn, stack, exc, script, query, converted>>

SecHaving ==
    /\ ClauseCount < MaxClauses
    /\ builder' = having(builder, "n", "v1", None)
    /\ returned' = Self
    /\ UNCHANGED <<threads, invoked, driver, conn, stack, exc, script, query, converted>>

SecJoin ==
    /\ ClauseCount < MaxClauses
    /\ \E type_ \in JoinTypes :
          builder' = _add_join(builder, type_, "posts", "users.id", "=",
                               "posts.user_id")
    /\ returned' = Self
    /\ UNCHANGED <<threads, invoked, driver, conn, stack, exc, script, query, converted>>

SecGroupBy ==
    /\ ClauseCount < MaxClauses
    /\ builder' = group_by(builder, <<"a">>)
    /\ returned' = Self
    /\ UNCHANGED <<threads, invoked, driver, conn, stack, exc, script, query, converted>>

SecOrderBy ==
    /\ ClauseCount < MaxClauses
    /\ builder' = order_by(builder, "a", "DESC")
    /\ returned' = Self
    /\ UNCHANGED <<threads, invoked, driver, conn, stack, exc, script, query, converted>>

NextSections ==
    \/ SecWhere \/ SecHaving \/ SecJoin \/ SecGroupBy \/ SecOrderBy
    \/ Select \/ ToSql \/ Exists \/ Aggregate

SpecSections == InitSections /\ [][NextSections]_vars

\* ------------------------------- SpecCursor: statements sent to an adapter
\* number of adapter calls in one run
MaxQueries == 2

\* faults that can happen in a statement call / in a fetch call
StatementFaults(d, level) ==
    {"none", "execute"} \cup (IF d = "sqlite" THEN {} ELSE {"cursor"})
        \cup (IF d = "mysql" /\ level = 0 THEN {"commit"} ELSE {})
FetchFaults == {"none", "cursor", "execute", "fetch"}

InitCursor ==
    /\ driver \in Drivers
    /\ conn = NewConnection(driver)
    /\ stack = <<>>
    /\ exc = None
    /\ script = <<>>
    /\ query = <<>>
    /\ converted = NotConverted
    /\ builder = NewBuilder(None)
    /\ returned = Self
    /\ invoked = NoCall
    /\ threads = NoThreads

\* the caller opens a transaction before its statements
CursorBegin ==
    /\ conn.transaction_level = 0
    /\ script = <<>>
    /\ conn' = begin_transaction(conn, driver)
    /\ UNCHANGED <<threads, invoked, driver, stack, exc, script, query, converted,
                   builder, returned>>

CursorExecute ==
    /\ Len(script) < MaxQueries
    /\ \E fault \in StatementFaults(driver, conn.transaction_level) :
          LET r == execute(conn, driver, fault)
          IN /\ conn' = r.conn
             /\ script' = Append(script, r.result)
    /\ UNCHANGED <<threads, invoked, driver, stack, exc, query, converted, builder,
                   returned>>

CursorExecuteMany ==
    /\ Len(script) < MaxQueries
    /\ \E empty \in BOOLEAN :
       \E fault \in StatementFaults(driver, conn.transaction_level) :
          LET r == execute_many(conn, driver, empty, fault)
          IN /\ conn' = r.conn
             /\ script' = Append(script, r.result)
    /\ UNCHANGED <<threads, invoked, driver, stack, exc, query, converted, builder,
                   returned>>

CursorFetchAll ==
    /\ Len(script) < MaxQueries
    /\ \E fault \in FetchFaults :
          script' = Append(script, fetch_all(driver, fault))
    /\ UNCHANGED <<threads, invoked, driver, conn, stack, exc, query, converted,
                   builder, returned>>

CursorFetchOne ==
    /\ Len(script) < MaxQueries
    /\ \E fault \in FetchFaults :
          script' = Append(script, fetch_one(driver, fault))
    /\ UNCHANGED <<threads, invoked, driver, conn, stack, exc, query, converted,
                   builder, returned>>

NextCursor ==
    \/ CursorBegin \/ CursorExecute \/ CursorExecuteMany
    \/ CursorFetchAll \/ CursorFetchOne

SpecCursor == InitCursor /\ [][NextCursor]_vars

\* ------------------------------------------ SpecRaw: DB.raw, DB.raw_execute
\* length of the SQL texts given to raw() and raw_execute()
MaxRawLen == 2
RawTexts == UNION {[1..n -> Alphabet] : n \in 0..MaxRawLen}
\* the bindings argument: left out (None), an empty list, a list
RawBindings ==
    {[given |-> FALSE, list |-> <<>>], [given |-> TRUE, list |-> <<>>],
     [given |-> TRUE, list |-> <<"v1", "v2">>]}

\* faulty variant: the caller's text is handed on as it is
RawSqlUntranslated(d, q) == q
\* "converted_query = self._convert_placeholders(query)"
RawSql(d, q) == ConvertPlaceholders(d, q)

\* DB.raw: "return self.connection.fetch_all(converted_query, bindings)";
\* fetched is what connection.fetch_all does
raw(d, q, bindings, fetched) ==
    [kind |-> "raw", raised |-> fetched.raised,
     value |-> IF fetched.raised # None THEN None ELSE fetched.val,
     calls |-> <<Call("fetch_all", RawSql(d, q), bindings)>>]

\* DB.raw_execute: "return self.connection.execute(converted_query,
\* bindings)"; executed is what connection.execute does
raw_execute(d, q, bindings, executed) ==
    [kind |-> "raw_execute", raised |-> executed.raised,
     value |-> IF executed.raised # None THEN None ELSE executed.val,
     calls |-> <<Call("execute", RawSql(d, q), bindings)>>]

InitRaw ==
    /\ driver \in Drivers
    /\ conn = NewConnection(driver)
    /\ stack = <<>>
    /\ exc = None
    /\ script = <<>>
    /\ query \in RawTexts
    /\ converted = NotConverted
    /\ builder = NewBuilder(None)
    /\ returned = Self
    /\ invoked = NoCall
    /\ threads = NoThreads

Raw ==
    /\ invoked = NoCall
    /\ \E bindings \in RawBindings, fetched \in ListFetches :
          /\ returned' = raw(driver, query, bindings, fetched)
          /\ invoked' = [op |-> "raw", bindings |-> bindings,
                         backend |-> fetched]
    /\ UNCHANGED <<threads, driver, conn, stack, exc, script, query, converted,
                   builder>>

RawExecute ==
    /\ invoked = NoCall
    /\ \E bindings \in RawBindings, executed \in Executes :
          /\ returned' = raw_execute(driver, query, bindings, executed)
          /\ invoked' = [op |-> "raw_execute", bindings |-> bindings,
                         backend |-> executed]
    /\ UNCHANGED <<threads, driver, conn, stack, exc, script, query, converted,
                   builder>>

NextRaw == Raw \/ RawExecute

SpecRaw == InitRaw /\ [][NextRaw]_vars

\* ------------------- SpecAtomic: statements inside one outermost scope
\* statements executed in one run
MaxStatements == 2
\* scopes entered in one run, the outermost one included
MaxNested == 2

InitAtomic == InitConn

\* "with tm.transaction():" once at top level, then only nested in it
AtomicEnter ==
    /\ Entered("enter") < MaxNested
    /\ Depth = 0 => Entered("enter") = 0
    /\ EnterScope

\* a statement in the body of a scope: connection.execute(sql, bindings);
\* an exception of the native client leaves the body
AtomicExecute ==
    /\ exc = None
    /\ Depth >= 1
    /\ Entered("execute") < MaxStatements
    /\ \E fault \in {"none", "execute"} :
          LET r == execute(conn, driver, fault) IN
          /\ conn' = r.conn
          /\ exc' = IF r.result.raised THEN BackendError ELSE None
    /\ script' = Append(script, "execute")
    /\ UNCHANGED <<threads, invoked, driver, stack, query, converted, builder,
                   returned>>

NextAtomic ==
    \/ AtomicEnter \/ AtomicExecute \/ BodyRaise \/ ExitScope
    \/ ExceptScope \/ EnterTry \/ ExitTry \/ Catch

SpecAtomic == InitAtomic /\ [][NextAtomic]_vars

\* ------------------------------ SpecOrder: chain calls in any order
\* join(), left_join(), right_join()
AllJoinTypes == {"inner", "left", "right"}

InitOrder == InitPage

OrderJoin ==
    /\ ClauseCount < MaxClauses
    /\ \E type_ \in AllJoinTypes :
          builder' = _add_join(builder, type_, "posts", "users.id", "=",
                               "posts.user_id")
    /\ returned' = Self
    /\ UNCHANGED <<threads, invoked, driver, conn, stack, exc, script, query, converted>>

NextOrder ==
    \/ SecWhere \/ SecHaving \/ OrderJoin \/ SecGroupBy \/ SecOrderBy
    \/ PageLimit \/ PageOffset \/ ToSql

SpecOrder == InitOrder /\ [][NextOrder]_vars

\* ------------- SpecThreads: two threads, each running one transaction()
\* statements one thread executes in its scope
MaxThreadStatements == 1
Threads == {1, 2}

\* faulty variant: every thread is given the first connection
ConnOfFirst(shared, t) == 1
\* TransactionManager(connection): the connection the thread's manager was
\* built with, the same object for both threads or one per thread
ConnOf(shared, t) == IF shared THEN 1 ELSE t

\* the threads that are inside their scope
OpenScopes == {u \in Threads : threads.pc[u] \in {"body", "except"}}

\* thread t has made a call that left its connection as c2 and goes on at
\* position pc; what the call sent to the backend is noted with the thread
\* and the scopes open at that time
Moved(t, c2, pc) ==
    LET k == ConnOf(threads.shared, t)
        added == Len(c2.backend) - Len(threads.conns[k].backend)
    IN [threads EXCEPT
          !.pc[t] = pc,
          !.conns[k] = c2,
          !.owners[k] = @ \o [i \in 1..added |->
                                 [by |-> t, open |-> OpenScopes]]]

ThreadConn(t) == threads.conns[ConnOf(threads.shared, t)]

InitThreads ==
    /\ driver \in Drivers
    /\ conn = NewConnection(driver)
    /\ stack = <<>>
    /\ exc = None
    /\ script = <<>>
    /\ query = <<>>
    /\ converted = NotConverted
    /\ builder = NewBuilder(None)
    /\ returned = Self
    /\ invoked = NoCall
    /\ \E shared \in BOOLEAN :
          threads =
              [shared |-> shared,
               pc |-> <<"start", "start">>,
               conns |-> IF shared THEN <<NewConnection(driver)>>
                         ELSE <<NewConnection(driver), NewConnection(driver)>>,
               owners |-> IF shared THEN << <<>> >> ELSE << <<>>, <<>> >>,
               sent |-> <<0, 0>>]

\* "with tm.transaction():" -- self.connection.begin_transaction(); yield
ThreadBegin ==
    /\ \E t \in Threads :
          /\ threads.pc[t] = "start"
          /\ threads' = Moved(t, begin_transaction(ThreadConn(t), driver),
                              "body")
    /\ UNCHANGED <<driver, conn, stack, exc, script, query, converted,
                   builder, returned, invoked>>

\* a statement in the body: connection.execute(sql, bindings)
ThreadExecute ==
    /\ \E t \in Threads, fault \in {"none", "execute"} :
          /\ threads.pc[t] = "body"
          /\ threads.sent[t] < MaxThreadStatements
          /\ LET r == execute(ThreadConn(t), driver, fault)
                 moved == Moved(t, r.conn,
                                IF r.result.raised THEN "except" ELSE "body")
             IN threads' = [moved EXCEPT !.sent[t] = @ + 1]
    /\ UNCHANGED <<driver, conn, stack, exc, script, query, converted,
                   builder, returned, invoked>>

\* the body raises
ThreadRaise ==
    /\ \E t \in Threads :
          /\ threads.pc[t] = "body"
          /\ threads' = [threads EXCEPT !.pc[t] = "except"]
    /\ UNCHANGED <<driver, conn, stack, exc, script, query, converted,
                   builder, returned, invoked>>

\* the body returns: self.connection.commit(); a commit that raises is
\* caught by the except branch
ThreadCommit ==
    /\ \E t \in Threads, fail \in BOOLEAN :
          /\ threads.pc[t] = "body"
          /\ LET c == commit(ThreadConn(t), driver, fail) IN
             threads' = Moved(t, c, IF Last(c.calls).raised THEN "except"
                                    ELSE "done")
    /\ UNCHANGED <<driver, conn, stack, exc, script, query, converted,
                   builder, returned, invoked>>

\* except Exception as e: self.connection.rollback(); raise e
ThreadRollback ==
    /\ \E t \in Threads :
          /\ threads.pc[t] = "except"
          /\ threads' = Moved(t, rollback(ThreadConn(t), driver), "raised")
    /\ UNCHANGED <<driver, conn, stack, exc, script, query, converted,
                   builder, returned, invoked>>

NextThreads ==
    \/ ThreadBegin \/ ThreadExecute \/ ThreadRaise \/ ThreadCommit
    \/ ThreadRollback

SpecThreads == InitThreads /\ [][NextThreads]_vars

\* ============================================================ the claims

CallSet == 1..Len(conn.calls)
NestedCommitScript == <<"enter", "enter", "exit", "exit">>

C2_RaiseRollsBackThenReraises ==
    \A e \in BodyExceptions :
        script = <<"enter", e>> =>
            /\ exc = e
            /\ Finished => Ops(conn) = <<"begin_transaction", "rollback">>
            /\ ~Finished => Ops(conn) = <<"begin_transaction">>

C2_Witness ==
    /\ script = <<"enter", "ValueError">>
    /\ Finished
    /\ Propagated = "ValueError"
    /\ Count(Ops(conn), "rollback") = 1

\* C6: under any sequence of begin_transaction/commit/rollback calls, a
\* commit() call issues a physical COMMIT if and only if it moves the nesting
\* counter from 1 to 0, and a commit() at counter >= 2 only decrements.
C6_CommitPhysicalIffOneToZero ==
    \A i \in CallSet :
        LET call == conn.calls[i] IN
        call.op = "commit" =>
            /\ (call.phys = <<"COMMIT">>) <=> (call.pre = 1 /\ call.post = 0)
            /\ call.pre >= 2 => (call.phys = <<>> /\ call.post = call.pre - 1)

\* C7: under any sequence of begin_transaction/commit/rollback calls, a
\* begin_transaction() call starts the physical transaction (and, on
\* PostgreSQL, switches autocommit off) if and only if it moves the nesting
\* counter from 0 to 1; a call at counter >= 1 only increments the counter.
C7_BeginPhysicalIffZeroToOne ==
    /\ \A i \in CallSet :
          LET call == conn.calls[i] IN
          call.op = "begin_transaction" =>
              /\ (call.phys = <<"BEGIN">>) <=> (call.pre = 0 /\ call.post = 1)
              /\ call.pre >= 1 => (call.phys = <<>> /\ call.post = call.pre + 1)
    /\ (/\ driver = "postgresql"
        /\ conn.calls # <<>>
        /\ Last(conn.calls).op = "begin_transaction")
           => (conn.autocommit = FALSE)

C7_Witness ==
    /\ Len(conn.calls) = 4
    /\ Ops(conn) = <<"begin_transaction", "begin_transaction",
                     "rollback", "begin_transaction">>
    /\ conn.backend = <<"BEGIN", "ROLLBACK", "BEGIN">>

\* C8: a single rollback() call made at any nesting counter value n >= 1
\* sets the counter to 0 and issues exactly one physical rollback, on the
\* SQLite, MySQL and PostgreSQL adapters alike.
C8_RollbackCollapses ==
    \A i \in CallSet :
        LET call == conn.calls[i] IN
        (call.op = "rollback" /\ call.pre >= 1) =>
            (call.post = 0 /\ call.phys = <<"ROLLBACK">>)

C8_Witness ==
    /\ driver = "postgresql"
    /\ conn.calls # <<>>
    /\ Last(conn.calls).op = "rollback"
    /\ Last(conn.calls).pre = 3
    /\ conn.transaction_level = 0
    /\ conn.autocommit

\* k nested scopes entered and the innermost body raised, nothing else
NestedRaiseScript ==
    /\ Len(script) >= 3
    /\ \A i \in 1..(Len(script) - 1) : script[i] = "enter"
    /\ Last(script) \in BodyExceptions

\* C9: when an exception raised in the innermost of k >= 2 nested scopes has
\* propagated out through all k scopes, the backend has received at most one
\* physical ROLLBACK, on every adapter.
C9_OneRollbackPerFailure ==
    (NestedRaiseScript /\ Finished) => Count(conn.backend, "ROLLBACK") <= 1

\* The quoted spans of a text as the translator is specified to see them:
\* a quote opens or closes a string unless an unescaped backslash stands
\* before it, and a backtick opens or closes an identifier only outside
\* strings.
RECURSIVE BackslashRun(_, _)
BackslashRun(q, i) ==
    IF i >= 1 /\ q[i] = Backslash THEN 1 + BackslashRun(q, i - 1) ELSE 0
Escaped(q, i) == BackslashRun(q, i - 1) % 2 = 1

\* the mode after reading q[1..n]
RECURSIVE RefMode(_, _)
RefMode(q, n) ==
    IF n = 0 THEN [in_string |-> FALSE, string_char |-> None,
                   in_identifier |-> FALSE]
    ELSE
      LET m == RefMode(q, n - 1)
          char == q[n]
      IN IF char \in Quotes /\ ~Escaped(q, n)
         THEN IF ~m.in_string
              THEN [m EXCEPT !.in_string = TRUE, !.string_char = char]
              ELSE IF m.string_char = char
              THEN [m EXCEPT !.in_string = FALSE]
              ELSE m
         ELSE IF char = Backtick /\ ~Escaped(q, n) /\ ~m.in_string
         THEN [m EXCEPT !.in_identifier = ~@]
         ELSE m

InsideSpan(q, i) ==
    RefMode(q, i - 1).in_string \/ RefMode(q, i - 1).in_identifier

RECURSIVE Concat(_)
Concat(ss) == IF ss = <<>> THEN <<>> ELSE Head(ss) \o Concat(Tail(ss))

\* q with exactly the ? outside all spans replaced by %s
RefTranslate(q) ==
    Concat([i \in 1..Len(q) |->
              IF q[i] = "?" /\ ~InsideSpan(q, i) THEN <<"%", "s">>
              ELSE <<q[i]>>])

\* q with every ? replaced by %s
TranslateAll(q) ==
    Concat([i \in 1..Len(q) |->
              IF q[i] = "?" THEN <<"%", "s">> ELSE <<q[i]>>])

\* C4: for every SQL text and a driver other than sqlite,
\* _convert_placeholders replaces with %s every ? that lies outside all
\* single-quoted, double-quoted and backtick-quoted spans and leaves every
\* ? inside such a span unchanged.
C4_TranslatesExactlyOutsideSpans ==
    (converted.called /\ driver # "sqlite") =>
        converted.result = RefTranslate(query)

\* a text that is one string literal holding only backticks, ? and plain
\* characters, followed by ? and plain characters: the index of the
\* literal's closing quote, or 0 when the text has no such shape
LiteralEnd(q) ==
    IF Len(q) >= 2 /\ q[1] \in Quotes
       /\ \E j \in 2..Len(q) :
             /\ q[j] = q[1]
             /\ \A k \in 2..(j - 1) : q[k] \in {Backtick, "?", "a"}
             /\ \A k \in (j + 1)..Len(q) : q[k] \in {"?", "a"}
    THEN CHOOSE j \in 2..Len(q) :
             /\ q[j] = q[1]
             /\ \A k \in 2..(j - 1) : q[k] \in {Backtick, "?", "a"}
    ELSE 0

\* C10: a backtick inside a string literal does not toggle identifier mode:
\* whatever the number of backticks in the literal, the literal is copied
\* unchanged and every ? after its closing quote is translated to %s.
C10_BackticksInStringAreText ==
    (converted.called /\ driver # "sqlite" /\ LiteralEnd(query) > 0) =>
        LET j == LiteralEnd(query) IN
        converted.result =
            SubSeq(query, 1, j) \o TranslateAll(SubSeq(query, j + 1, Len(query)))

\* a quote or backtick that stands immediately after a backslash
AfterBackslash(q, i) == i > 1 /\ q[i - 1] = Backslash
\* the body q[2..j-1] of a literal opened at 1 and closed at j: plain
\* characters, ?, and backslashes each followed by a quote or a backtick of
\* the body; at least one such escaped quote
EscapedBody(q, j) ==
    /\ q[j] = q[1]
    /\ q[j - 1] # Backslash
    /\ \A k \in 2..(j - 1) :
          \/ q[k] \in {"?", "a"}
          \/ q[k] = Backslash /\ k + 1 <= j - 1
                /\ q[k + 1] \in Quotes \cup {Backtick}
          \/ q[k] \in Quotes \cup {Backtick} /\ q[k - 1] = Backslash
    /\ \E k \in 3..(j - 1) : q[k] \in Quotes /\ q[k - 1] = Backslash
\* a text that is one string literal with escaped quotes in it, followed by
\* ? and plain characters: the index of the literal's closing quote, or 0
EscapedLiteralEnd(q) ==
    IF Len(q) >= 4 /\ q[1] \in Quotes
       /\ \E j \in 4..Len(q) :
             /\ EscapedBody(q, j)
             /\ \A k \in (j + 1)..Len(q) : q[k] \in {"?", "a"}
    THEN CHOOSE j \in 4..Len(q) : EscapedBody(q, j)
    ELSE 0
\* every quote and every backtick of the text stands after a backslash
AllQuotesAfterBackslash(q) ==
    /\ \E i \in 1..Len(q) : q[i] \in Quotes \cup {Backtick}
    /\ \A i \in 1..Len(q) :
          q[i] \in Quotes \cup {Backtick} => AfterBackslash(q, i)

\* C11: a quote or backtick immediately preceded by a backslash never
\* changes the scanner's mode: a text whose quotes and backticks all stand
\* after a backslash is translated as a text without spans, a ? inside a
\* string literal that holds an escaped quote stays as it is, and a ? after
\* that literal's real closing quote is translated to %s.
C11_EscapedQuoteKeepsMode ==
    (converted.called /\ driver # "sqlite") =>
        /\ AllQuotesAfterBackslash(query) =>
              converted.result = TranslateAll(query)
        /\ EscapedLiteralEnd(query) > 0 =>
              LET j == EscapedLiteralEnd(query) IN
              converted.result =
                  SubSeq(query, 1, j)
                      \o TranslateAll(SubSeq(query, j + 1, Len(query)))
\* the literal '\'' followed by a ?, translated for MySQL
C11_Witness ==
    /\ converted.called /\ driver = "mysql"
    /\ query = <<"'", Backslash, "'", "'", "?">>
    /\ converted.result = <<"'", Backslash, "'", "'", "%", "s">>
\* reading a rendered statement
Rendered == returned.kind = "to_sql" /\ returned.raised = None
PlaceholderCount(sql, p, upto) ==
    Cardinality({j \in 1..upto : sql[j] = p})
PositionOf(sql, token) ==
    IF \E j \in 1..Len(sql) : sql[j] = token
    THEN CHOOSE j \in 1..Len(sql) :
            sql[j] = token /\ \A k \in 1..(j - 1) : sql[k] # token
    ELSE Len(sql) + 1
\* the position of the n-th placeholder, read left to right
NthPlaceholder(sql, p, n) ==
    CHOOSE j \in 1..Len(sql) : sql[j] = p /\ PlaceholderCount(sql, p, j) = n
\* the predicate that owns the placeholder at position j: the k-th WHERE
\* predicate when j is the k-th placeholder before the HAVING keyword, else
\* the k-th HAVING predicate when it is the k-th placeholder after it
OwnerOf(b, sql, p, j) ==
    LET h == PositionOf(sql, "HAVING") IN
    IF j < h
    THEN b.where_clauses[PlaceholderCount(sql, p, j)]
    ELSE b.having_clauses[PlaceholderCount(sql, p, j)
                            - PlaceholderCount(sql, p, h - 1)]
\* only where() and having() have added predicates
OnlyWhereAndHaving ==
    \A k \in 1..Len(builder.where_clauses) : builder.where_clauses[k][2] # None

\* C3: for any sequence of where() and having() calls, in any interleaving,
\* to_sql() returns a statement with exactly one placeholder per call and a
\* binding list of the same length whose i-th binding is the value of the
\* predicate that owns the i-th placeholder of the statement.
C3_BindingsFollowPlaceholders ==
    (Rendered /\ OnlyWhereAndHaving) =>
        LET p == get_placeholder(driver)
            sql == returned.sql
            n == Len(builder.where_clauses) + Len(builder.having_clauses)
        IN /\ PlaceholderCount(sql, p, Len(sql)) = n
           /\ Len(returned.bindings) = n
           /\ \A i \in 1..n :
                 returned.bindings[i]
                    = OwnerOf(builder, sql, p, NthPlaceholder(sql, p, i))[3]

\* the text between the WHERE keyword and the next section
WhereText(sql) ==
    SubSeq(sql, PositionOf(sql, "WHERE") + 1, PositionOf(sql, "HAVING") - 1)
\* what each WHERE predicate is to contribute: its stored fragment when the
\* operator is None, else "column operator placeholder"
ExpectedWhereText(b, p) ==
    Join("AND", [k \in 1..Len(b.where_clauses) |->
        IF b.where_clauses[k][2] = None THEN b.where_clauses[k][1]
        ELSE b.where_clauses[k][1] \o <<b.where_clauses[k][2], p>>])
HasInPredicate ==
    \E k \in 1..Len(builder.where_clauses) : builder.where_clauses[k][2] = None

\* C5: after where_in / where_not_in with a non-empty list, the rendered
\* statement holds in its WHERE section the fragment "column IN (p, ..., p)"
\* (resp. NOT IN) with one placeholder per value, joined with the other
\* predicates by AND.
C5_InFragmentRendered ==
    (Rendered /\ HasInPredicate) =>
        WhereText(returned.sql)
            = ExpectedWhereText(builder, get_placeholder(driver))

\* the reading operations, and the error a missing table gives
Readers == {"to_sql", "get", "first", "exists", "aggregate"}
NoTableError == "ValueError: Table name is required"

\* C12: when fetch_one raises, or rendering raises, during first(),
\* exists() or an aggregate, the error reaches the caller and the builder's
\* column list and limit are what they were before the call.
C12_ErrorRestoresColumnsAndLimit ==
    [][(/\ returned'.kind \in {"first", "exists", "aggregate"}
        /\ returned'.raised \notin {None, NoRowError})
          => /\ builder'.columns = builder.columns
             /\ builder'.limit = builder.limit]_vars

\* C14: to_sql(), get(), first(), exists() and every aggregate, called on a
\* builder without a table, raise the configuration error and make no call
\* on the backend.
C14_ReadWithoutTableRaises ==
    (returned.kind \in Readers /\ builder.table = None) =>
        /\ returned.raised = NoTableError
        /\ returned.calls = <<>>
C14_Witness ==
    /\ returned.kind = "aggregate" /\ builder.table = None
    /\ returned.raised = NoTableError /\ returned.calls = <<>>
    /\ builder.where_clauses # <<>>

\* the writing operations
Writers == {"insert", "update", "delete"}

\* C13: insert(), update() and delete(), called on a builder without a
\* table, report a configuration error and make no call on the backend.
C13_WriteWithoutTableRefused ==
    (returned.kind \in Writers /\ builder.table = None) =>
        /\ returned.calls = <<>>
        /\ returned.raised # None \/ returned.value = FALSE

\* the values the where() predicates hold, in call order
WhereValues(b) == [k \in 1..Len(b.where_clauses) |-> b.where_clauses[k][3]]
\* the WHERE section a statement is to end with
ExpectedWhereSection(b, p) ==
    IF b.where_clauses # <<>> THEN <<"WHERE">> \o ExpectedWhereText(b, p)
    ELSE <<>>

\* C15: delete() makes exactly one execute call; its statement is
\* DELETE FROM table, followed by a WHERE section iff WHERE predicates
\* exist; its bindings are as many as the placeholders of the WHERE
\* predicates and, when only where() added predicates, exactly their values
\* in call order: no value given to having() is among them.
C15_DeleteBindsWhereValuesOnly ==
    (returned.kind = "delete" /\ builder.table # None) =>
        LET p == get_placeholder(driver) IN
        /\ Len(returned.calls) = 1
        /\ returned.calls[1].method = "execute"
        /\ returned.calls[1].sql
              = <<"DELETE", "FROM", builder.table>>
                   \o ExpectedWhereSection(builder, p)
        /\ Len(returned.calls[1].bindings)
              = PlaceholderCount(ExpectedWhereSection(builder, p), p,
                                 Len(ExpectedWhereSection(builder, p)))
        /\ OnlyWhereAndHaving =>
              returned.calls[1].bindings = WhereValues(builder)

\* C16: update(data) with non-empty data makes exactly one execute call;
\* its statement is UPDATE table SET c1 = p, ..., cn = p, followed by
\* WHERE and the predicates iff WHERE predicates exist; its bindings are
\* data's values in iteration order followed by the WHERE predicates'
\* bindings, as many as the statement has placeholders.
C16_UpdateStatementAndBindings ==
    (returned.kind = "update" /\ invoked.data # <<>> /\ builder.table # None) =>
        LET p == get_placeholder(driver)
            data == invoked.data
            n == Len(data)
            call == returned.calls[1]
        IN /\ Len(returned.calls) = 1
           /\ call.method = "execute"
           /\ call.sql
                 = <<"UPDATE", builder.table, "SET">>
                      \o Join(",", [k \in 1..n |-> <<data[k][1], "=", p>>])
                      \o ExpectedWhereSection(builder, p)
           /\ Len(call.bindings) = PlaceholderCount(call.sql, p, Len(call.sql))
           /\ Len(call.bindings) >= n
           /\ SubSeq(call.bindings, 1, n) = [k \in 1..n |-> data[k][2]]
           /\ OnlyWhereAndHaving =>
                 SubSeq(call.bindings, n + 1, Len(call.bindings))
                     = WhereValues(builder)

\* reading an INSERT statement: its column list
ColumnsOf(sql) ==
    SelectSeq(SubSeq(sql, PositionOf(sql, "(") + 1, PositionOf(sql, ")") - 1),
              LAMBDA t : t # ",")
ColumnSet(sql) == {ColumnsOf(sql)[k] : k \in 1..Len(ColumnsOf(sql))}
IndexIn(order, c) == CHOOSE i \in 1..Len(order) : order[i] = c
InSortedOrder(cols) ==
    \A i, j \in 1..Len(cols) :
        i < j => IndexIn(ColumnOrder, cols[i]) < IndexIn(ColumnOrder, cols[j])
\* the binding list of a row for a column list
RowBindings(row, cols) == [k \in 1..Len(cols) |-> Value(row, cols[k])]

\* C18: insert(rows) sends, when no statement raises, exactly one statement
\* per set of column names that some row has and that is not empty; the
\* statement's columns are that set in sorted order; a group of one row goes
\* out by execute with the row's binding list, a group of several by
\* execute_many with one binding list per row in input order; every binding
\* list follows the statement's column order.
C18_InsertOneStatementPerGroup ==
    (/\ returned.kind = "insert" /\ returned.raised = None
     /\ ~IsEmptyData(invoked.data)) =>
        LET rows == invoked.data.rows
            keysets == {Keys(rows[i]) : i \in 1..Len(rows)} \ {{}}
            calls == returned.calls
        IN /\ Len(calls) = Cardinality(keysets)
           /\ \A ks \in keysets :
                 \E c \in 1..Len(calls) : ColumnSet(calls[c].sql) = ks
           /\ \A c \in 1..Len(calls) :
                 LET cols == ColumnsOf(calls[c].sql)
                     group == SelectSeq(rows,
                                 LAMBDA r : Keys(r) = ColumnSet(calls[c].sql))
                 IN /\ InSortedOrder(cols)
                    /\ calls[c].sql
                          = <<"INSERT", "INTO", builder.table, "(">>
                              \o Join(",", [k \in 1..Len(cols) |-> <<cols[k]>>])
                              \o <<")", "VALUES", "(">>
                              \o Join(",", [k \in 1..Len(cols) |->
                                     <<get_placeholder(driver)>>])
                              \o <<")">>
                    /\ Len(group) = 1 =>
                          /\ calls[c].method = "execute"
                          /\ calls[c].bindings = RowBindings(group[1], cols)
                    /\ Len(group) > 1 =>
                          /\ calls[c].method = "execute_many"
                          /\ calls[c].bindings
                                = [i \in 1..Len(group) |->
                                      RowBindings(group[i], cols)]
\* two rows with the same columns in different key order, sent together
C18_Witness ==
    /\ returned.kind = "insert" /\ returned.raised = None
    /\ invoked.data.rows
          = << << <<"b", "2">>, <<"a", "3">> >>, << <<"a", "4">>, <<"b", "5">> >> >>
    /\ Len(returned.calls) = 1
    /\ returned.calls[1].method = "execute_many"
    /\ returned.calls[1].bindings = << <<"3", "2">>, <<"4", "5">> >>

\* the call was insert([]), insert({}) or update({})
EmptyWrite(call) ==
    \/ call.op = "insert" /\ call.data.rows \in {<<>>, << <<>> >>}
           /\ (call.data.type = "dict" <=> call.data.rows # <<>>)
    \/ call.op = "update" /\ call.data = <<>>

\* C19: insert([]), insert({}) and update({}) each return False, make no
\* call on the backend and leave the builder as it was.
C19_EmptyWriteIsRefused ==
    [][(returned'.kind \in {"insert", "update"} /\ EmptyWrite(invoked')) =>
          /\ returned'.raised = None
          /\ returned'.value = FALSE
          /\ returned'.calls = <<>>
          /\ builder' = builder]_vars
C19_Witness ==
    /\ invoked = [op |-> "insert", data |-> [type |-> "list", rows |-> <<>>]]
    /\ returned.kind = "insert" /\ returned.value = FALSE
    /\ returned.calls = <<>>

\* C17: where(column, v) stores the predicate (column, "=", v) and
\* where(column, op, v) stores (column, op, v) for every v, a null v in the
\* three-argument form included; each call appends exactly one predicate and
\* exactly one binding, which is v.
C17_WhereStoresWhatWasPassed ==
    [][invoked'.op = "where" =>
          LET c == invoked'
              operator == IF c.nargs = 2 THEN "=" ELSE c.x
              v == IF c.nargs = 2 THEN c.x ELSE c.y
          IN /\ builder'.where_clauses
                   = Append(builder.where_clauses, << <<c.column>>, operator, v >>)
             /\ builder'.bindings = Append(builder.bindings, v)]_vars

\* C20: where_in(column, values) and where_not_in(column, values) with an
\* empty list leave the WHERE predicates, the bindings and every other
\* field of the builder as they were, and return the builder.
C20_EmptyListChangesNothing ==
    [][(invoked'.op \in {"where_in", "where_not_in"} /\ invoked'.values = <<>>)
          => builder' = builder /\ returned' = Self]_vars
C20_Witness ==
    /\ invoked.op = "where_not_in" /\ invoked.values = <<>>
    /\ builder.where_clauses # <<>> /\ builder.bindings # <<>>
    /\ returned = Self

\* what a reading operation rendered: the statement and its bindings
SentSql(r) == IF r.kind = "to_sql" THEN r.sql ELSE r.calls[1].sql
SentBindings(r) == IF r.kind = "to_sql" THEN r.bindings ELSE r.calls[1].bindings
PageErrors ==
    {"ValueError: LIMIT value must be a non-negative integer.",
     "ValueError: OFFSET value must be a non-negative integer."}
\* a limit or offset that is set and is negative or no integer
BadPage(x) == x # PyNone /\ (x.type # "int" \/ x.val < 0)
\* the tokens keyword n are in the statement, next to each other
Inlined(sql, keyword, x) ==
    x # PyNone =>
        \E j \in 1..(Len(sql) - 1) :
            sql[j] = keyword /\ sql[j + 1] = ToString(x.val)
\* what a read does on builder b when lim is the limit it renders
PageContract(b, lim, r) ==
    IF BadPage(lim) \/ BadPage(b.offset)
    THEN r.raised \in PageErrors /\ r.calls = <<>>
    ELSE /\ r.raised \notin PageErrors
         /\ r.kind # "to_sql" => Len(r.calls) = 1
         /\ Inlined(SentSql(r), "LIMIT", lim)
         /\ Inlined(SentSql(r), "OFFSET", b.offset)
         /\ SentBindings(r) = b.bindings

\* C21 as stated: every reading operation, first() included, raises a
\* configuration error and makes no backend call when the builder's limit or
\* offset is negative or no integer; valid ones are inlined as literals and
\* add nothing to the bindings.
C21_BadPageAlwaysRaises ==
    [][returned'.kind \in Readers =>
          PageContract(builder, builder.limit, returned')]_vars

\* C21 amended: the same, except that first() renders with the limit 1 in
\* place of the builder's limit, so that first() raises only when the
\* offset is negative or no integer.
C21_BadPageRaisesWhenRendered ==
    [][returned'.kind \in Readers =>
          PageContract(builder,
                       IF returned'.kind = "first" THEN PyInt(1)
                       ELSE builder.limit,
                       returned')]_vars
\* get() after limit("2"): refused; nothing sent
C21_Witness ==
    /\ returned.kind = "get" /\ builder.limit = PyStr(2)
    /\ builder.offset = PyInt(2) /\ builder.bindings # <<>>
    /\ returned.raised \in PageErrors /\ returned.calls = <<>>

\* a statement from its FROM keyword on, and what stands before it
FromOn(sql) == SubSeq(sql, PositionOf(sql, "FROM"), Len(sql))
BeforeFrom(sql) == SubSeq(sql, 1, PositionOf(sql, "FROM") - 1)
\* the statement inside SELECT EXISTS( ... ) as exists_flag
InsideExists(sql) == SubSeq(sql, 4, Len(sql) - 3)
AggregateHeads ==
    {<<"SELECT", call[1] \o "(" \o call[2] \o ") as aggregate">> :
        call \in AggregateCalls}

\* C22: an aggregate or exists() that completes leaves every field of the
\* builder as it was; the statement it sends through fetch_one has, from
\* FROM on, the sections of to_sql() on that builder and the same bindings;
\* its column list is FUNC(column) as aggregate, or 1 inside SELECT
\* EXISTS(...); the aggregate returns the aggregate field of the row.
C22_AggregateKeepsBuilderAndSections ==
    [][(returned'.kind \in {"aggregate", "exists"} /\ returned'.raised = None)
          => LET ref == to_sql(builder, driver)
                 call == returned'.calls[1]
                 sql == IF returned'.kind = "exists"
                        THEN InsideExists(call.sql) ELSE call.sql
             IN /\ builder' = builder
                /\ Len(returned'.calls) = 1
                /\ call.method = "fetch_one"
                /\ FromOn(sql) = FromOn(ref.sql)
                /\ call.bindings = ref.bindings
                /\ returned'.kind = "aggregate" =>
                      /\ BeforeFrom(sql) \in AggregateHeads
                      /\ returned'.value = "3"
                /\ returned'.kind = "exists" =>
                      /\ BeforeFrom(sql) = <<"SELECT", "1">>
                      /\ call.sql = <<"SELECT", "EXISTS", "(">> \o sql
                                        \o <<")", "as", "exists_flag">>
                      /\ returned'.value \in BOOLEAN]_vars
\* an aggregate that completed on a builder with a join, a having predicate
\* and its own column list
C22_Witness ==
    /\ returned.kind = "aggregate" /\ returned.raised = None
    /\ builder.columns = <<"id", "name">>
    /\ builder.join_clauses # <<>> /\ builder.having_clauses # <<>>
    /\ returned.calls[1].bindings = <<"v1">>

\* the LIMIT section of a statement
LimitTokens(sql) ==
    IF PositionOf(sql, "LIMIT") <= Len(sql)
    THEN SubSeq(sql, PositionOf(sql, "LIMIT"), PositionOf(sql, "LIMIT") + 1)
    ELSE <<>>

\* C23: first() sends through fetch_one a statement with LIMIT 1 whatever
\* the builder's limit is, and when it returns the builder's limit (and
\* every other field) is what it was before the call; a get() renders the
\* limit the builder holds, or no LIMIT section when it holds none.
C23_FirstForcesLimitOneAndRestores ==
    [][/\ (returned'.kind = "first" /\ returned'.raised = None) =>
             /\ Len(returned'.calls) = 1
             /\ returned'.calls[1].method = "fetch_one"
             /\ LimitTokens(returned'.calls[1].sql) = <<"LIMIT", "1">>
             /\ builder'.limit = builder.limit
             /\ builder' = builder
       /\ (returned'.kind = "get" /\ returned'.calls # <<>>) =>
             LimitTokens(returned'.calls[1].sql)
                = IF builder.limit = PyNone THEN <<>>
                  ELSE <<"LIMIT", ToString(builder.limit.val)>>]_vars
\* first() returned on a builder with limit 2 and an offset
C23_Witness ==
    /\ returned.kind = "first" /\ returned.raised = None
    /\ builder.limit = PyInt(2) /\ builder.offset = PyInt(2)
    /\ LimitTokens(returned.calls[1].sql) = <<"LIMIT", "1">>

\* C24: on the PostgreSQL adapter, whenever a transaction() scope has
\* exited (normally, by an exception in its body, or by a failing physical
\* commit) and the nesting counter is 0, the autocommit flag is True.
C24_AutocommitBackAfterScope ==
    (/\ driver = "postgresql"
     /\ \E i \in CallSet : conn.calls[i].op \in {"commit", "rollback"}
     /\ conn.transaction_level = 0)
        => conn.autocommit

\* C25: every execute, execute_many, fetch_all and fetch_one call on the
\* MySQL and PostgreSQL adapters has closed every cursor it opened when it
\* returns or re-raises, also when the cursor's execute or fetch raised.
C25_CursorsClosedOnEveryPath ==
    driver \in {"mysql", "postgresql"} =>
        \A i \in 1..Len(script) : script[i].closed = script[i].opened

\* texts without quote, backtick or backslash: every ? is a placeholder
Plain(q) == \A i \in 1..Len(q) : q[i] \in {"?", "a"}
RawMethod(op) == IF op = "raw" THEN "fetch_all" ELSE "execute"

\* C26: DB.raw and DB.raw_execute each make exactly one backend call
\* (fetch_all, resp. execute) whose SQL is the placeholder-translated form
\* of the caller's SQL for the configured driver and whose bindings are the
\* caller's bindings unchanged, and return what that call returned (or
\* raise what it raised).
C26_RawDelegatesOnce ==
    invoked.op \in {"raw", "raw_execute"} =>
        /\ returned.kind = invoked.op
        /\ Len(returned.calls) = 1
        /\ returned.calls[1].method = RawMethod(invoked.op)
        /\ returned.calls[1].sql = ConvertPlaceholders(driver, query)
        /\ Plain(query) =>
              returned.calls[1].sql =
                  IF driver = "sqlite" THEN query ELSE TranslateAll(query)
        /\ returned.calls[1].bindings = invoked.bindings
        /\ returned.raised = invoked.backend.raised
        /\ returned.raised = None => returned.value = invoked.backend.val

C26_Witness ==
    /\ invoked.op = "raw_execute"
    /\ driver = "postgresql"
    /\ query = <<"?", "?">>
    /\ returned.calls[1].sql = <<"%", "s", "%", "s">>
    /\ returned.calls[1].bindings = [given |-> TRUE, list |-> <<"v1", "v2">>]
    /\ returned.raised = None
    /\ returned.value = TRUE

\* C27: with driver sqlite, _convert_placeholders returns its input
\* unchanged for every SQL text, whether its ? are inside or outside quoted
\* spans.
C27_SqliteIsIdentity ==
    (driver = "sqlite" /\ converted.called) => converted.result = query

C27_Witness ==
    /\ driver = "sqlite"
    /\ converted.called
    /\ query = <<"?", "'", "?", "'", "?">>
    /\ converted.result = query

OtherQuote(c) == IF c = "'" THEN "\"" ELSE "'"
\* q starts with a string that holds at least one quote of the other kind
\* beside ? and letters and ends at index k, and goes on without quotes
MixedStringEndsAt(q, k) ==
    /\ Len(q) >= 3
    /\ q[1] \in Quotes
    /\ k \in 3..Len(q)
    /\ q[k] = q[1]
    /\ \A j \in 2..(k - 1) : q[j] \in {OtherQuote(q[1]), "?", "a"}
    /\ \E j \in 2..(k - 1) : q[j] = OtherQuote(q[1])
    /\ \A j \in (k + 1)..Len(q) : q[j] \in {"?", "a"}

\* C29: a quote of the other kind met inside a string does not open or
\* close anything: a double-quoted string holding an apostrophe and a
\* single-quoted string holding double quotes are copied unchanged, their
\* interior ? stay untranslated, and a ? after their closing quote is
\* translated.
C29_OtherQuoteIsText ==
    (driver # "sqlite" /\ converted.called) =>
        \A k \in 1..Len(query) :
            MixedStringEndsAt(query, k) =>
                converted.result =
                    SubSeq(query, 1, k)
                        \o TranslateAll(SubSeq(query, k + 1, Len(query)))

C29_Witness ==
    /\ driver = "mysql"
    /\ converted.called
    /\ query = <<"\"", "'", "?", "\"", "?">>
    /\ MixedStringEndsAt(query, 4)
    /\ converted.result = <<"\"", "'", "?", "\"", "%", "s">>

\* C28: a transaction() scope whose body completes normally calls
\* begin_transaction exactly once (when it is entered), then commit exactly
\* once (when it is left), and never calls rollback, provided the commit
\* call itself does not fail.
C28_NormalScopeBeginsAndCommitsOnce ==
    [][/\ script' = Append(script, "enter") =>
            Ops(conn') = Append(Ops(conn), "begin_transaction")
       /\ (script' = Append(script, "exit") /\ exc' = None) =>
            /\ Ops(conn') = Append(Ops(conn), "commit")
            /\ ~Last(conn'.calls).raised]_vars

C28_Witness ==
    /\ script = <<"enter", "enter", "exit", "exit">>
    /\ exc = None
    /\ Ops(conn) =
          <<"begin_transaction", "begin_transaction", "commit", "commit">>

\* what the database keeps of the statements it received. A statement is
\* pending until the next COMMIT or ROLLBACK the connection receives; on
\* PostgreSQL a statement sent while the connection is in autocommit mode
\* (no BEGIN since the last COMMIT or ROLLBACK) is kept at once.
StatementsSent == {i \in 1..Len(conn.backend) : conn.backend[i] = "STATEMENT"}
Enders == {"COMMIT", "ROLLBACK"}
InAutocommit(i) ==
    /\ driver = "postgresql"
    /\ \A j \in 1..(i - 1) :
          conn.backend[j] = "BEGIN" =>
              \E k \in (j + 1)..(i - 1) : conn.backend[k] \in Enders
Durable(i) ==
    \/ InAutocommit(i)
    \/ \E j \in (i + 1)..Len(conn.backend) :
          /\ conn.backend[j] = "COMMIT"
          /\ \A k \in (i + 1)..(j - 1) : conn.backend[k] \notin Enders
NoCallRaised == \A i \in CallSet : ~conn.calls[i].raised

\* C30: the statements executed inside one outermost transaction() scope
\* are made durable all together or not at all, also when an inner nested
\* scope fails and the caller catches its exception inside the outer scope
\* and continues.
C30_ScopeIsAtomic ==
    (Finished /\ Entered("enter") >= 1 /\ NoCallRaised) =>
        \/ \A i \in StatementsSent : Durable(i)
        \/ \A i \in StatementsSent : ~Durable(i)

\* C31: in every program of nested transaction() scopes whose bodies may
\* raise and whose callers may catch between nesting levels, every physical
\* COMMIT that reaches the backend is preceded by a physical BEGIN with no
\* physical COMMIT or ROLLBACK between the two.
C31_CommitFollowsItsBegin ==
    \A i \in 1..Len(conn.backend) :
        conn.backend[i] = "COMMIT" =>
            \E j \in 1..(i - 1) :
                /\ conn.backend[j] = "BEGIN"
                /\ \A k \in (j + 1)..(i - 1) : conn.backend[k] \notin Enders

\* C32: for any sequence of where, where_in, where_not_in and having calls
\* on one builder, the number of native placeholder tokens in the statement
\* returned by to_sql() equals the length of the binding list returned with
\* it.
C32_PlaceholdersMatchBindings ==
    Rendered =>
        PlaceholderCount(returned.sql, get_placeholder(driver),
                         Len(returned.sql)) = Len(returned.bindings)

\* q starts with a string whose body ends in an escaped backslash (a run
\* of two backslashes) and which the same quote closes at index k, and goes
\* on without quotes
BackslashPairEndsAt(q, k) ==
    /\ Len(q) >= 4
    /\ q[1] \in Quotes
    /\ k \in 4..Len(q)
    /\ q[k] = q[1]
    /\ q[k - 1] = Backslash /\ q[k - 2] = Backslash
    /\ \A j \in 2..(k - 3) : q[j] \in {"?", "a"}
    /\ \A j \in (k + 1)..Len(q) : q[j] \in {"?", "a"}

\* C33: a quote preceded by an escaped backslash (a run of two backslashes)
\* closes the string it is in, so a parameter ? that follows it is
\* translated to %s.
C33_QuoteAfterBackslashPairCloses ==
    (driver # "sqlite" /\ converted.called) =>
        \A k \in 1..Len(query) :
            BackslashPairEndsAt(query, k) =>
                converted.result =
                    SubSeq(query, 1, k)
                        \o TranslateAll(SubSeq(query, k + 1, Len(query)))

\* C34: under any sequence of begin_transaction, commit and rollback calls
\* on any adapter, commit or rollback with no open transaction included,
\* the nesting counter starts at 0 and is a non-negative integer in every
\* reachable state.
C34_CounterNeverNegative ==
    /\ conn.transaction_level \in Nat
    /\ Levels(conn)[1] = 0
    /\ conn.calls = <<>> => conn.transaction_level = 0
    /\ \A i \in CallSet :
          /\ conn.calls[i].pre \in Nat
          /\ conn.calls[i].post \in Nat
          /\ conn.calls[i].pre = Levels(conn)[i]
    /\ conn.transaction_level = Levels(conn)[Len(conn.calls) + 1]

C34_Witness ==
    /\ \E i \in CallSet :
          /\ conn.calls[i].op = "commit"
          /\ conn.calls[i].pre = 0
          /\ conn.calls[i].post = 0
    /\ \E i \in CallSet :
          /\ conn.calls[i].op = "rollback"
          /\ conn.calls[i].pre = 0
    /\ conn.transaction_level = 2

\* C35: insert() returns true only if it made at least one execute or
\* execute_many call on the backend and every such call returned true; an
\* input whose rows all have no columns does not yield true.
C35_InsertTrueNeedsACall ==
    (returned.kind = "insert" /\ returned.raised = None
        /\ returned.value = TRUE) =>
        /\ Len(returned.calls) >= 1
        /\ \E i \in 1..Len(invoked.data.rows) : invoked.data.rows[i] # <<>>

\* r is q with some of its ? replaced by %s, read from q[i] and r[j] on
RECURSIVE Aligned(_, _, _, _)
Aligned(q, r, i, j) ==
    IF i > Len(q) THEN j = Len(r) + 1
    ELSE IF q[i] = "?" /\ j + 1 <= Len(r) /\ r[j] = "%" /\ r[j + 1] = "s"
    THEN Aligned(q, r, i + 1, j + 2)
    ELSE IF j <= Len(r) /\ r[j] = q[i]
    THEN Aligned(q, r, i + 1, j + 1)
    ELSE FALSE

\* C36: for every input and a non-sqlite driver, the translator's output is
\* the input with some ? replaced by %s and nothing else added, dropped or
\* reordered; the output's length is the input's length plus the number of
\* replaced ?; the result depends only on the input text (it is the same
\* for both drivers, and texts with unbalanced quotes are translated too).
C36_OnlyPlaceholdersChange ==
    (driver # "sqlite" /\ converted.called) =>
        /\ Aligned(query, converted.result, 1, 1)
        /\ Len(converted.result) = Len(query) + Count(converted.result, "%")
        /\ Count(query, "?") =
              Count(converted.result, "?") + Count(converted.result, "%")
        /\ converted.result = ConvertPlaceholders("mysql", query)
        /\ converted.result = ConvertPlaceholders("postgresql", query)

C36_Witness ==
    /\ driver = "postgresql"
    /\ converted.called
    /\ query = <<"?", "a", "'", "?", "?">>
    /\ converted.result = <<"%", "s", "a", "'", "?", "?">>

\* the keywords that open the sections of a SELECT, in the fixed order
SectionHeads ==
    <<"SELECT", "FROM", "JOIN", "WHERE", "GROUP", "HAVING", "ORDER", "LIMIT",
      "OFFSET">>
TokensAt(sql, token) == {i \in 1..Len(sql) : sql[i] = token}
Times(sql, token) == Cardinality(TokensAt(sql, token))
OnceIff(sql, token, present) == Times(sql, token) = IF present THEN 1 ELSE 0
\* the token before the k-th JOIN tells the kind of the k-th join spec
JoinMatches(sql, k, spec) ==
    LET j == NthPlaceholder(sql, "JOIN", k) IN
    /\ spec[1] = "inner" => sql[j - 1] \notin {"LEFT", "RIGHT"}
    /\ spec[1] = "left" => sql[j - 1] = "LEFT"
    /\ spec[1] = "right" => sql[j - 1] = "RIGHT"
    /\ SubSeq(sql, j + 1, j + 5) = <<spec[2], "ON", spec[3], spec[4], spec[5]>>

\* C37: the rendered SELECT has its sections in the fixed order SELECT cols
\* FROM table, JOINs (one per join spec in insertion order, with keyword
\* JOIN / LEFT JOIN / RIGHT JOIN), WHERE, GROUP BY, HAVING, ORDER BY, LIMIT,
\* OFFSET, whatever the order of the chain calls, and a section's keyword
\* is present only if its clause sequence or scalar is non-empty.
C37_SectionsInFixedOrder ==
    Rendered =>
        LET sql == returned.sql
            b == builder
        IN /\ \A m \in 1..Len(SectionHeads) : \A n \in (m + 1)..Len(SectionHeads) :
                \A i \in TokensAt(sql, SectionHeads[m]) :
                    \A j \in TokensAt(sql, SectionHeads[n]) : i < j
           /\ TokensAt(sql, "SELECT") = {1}
           /\ Times(sql, "FROM") = 1
           /\ \A i \in TokensAt(sql, "FROM") : sql[i + 1] = b.table
           /\ Times(sql, "JOIN") = Len(b.join_clauses)
           /\ \A k \in 1..Len(b.join_clauses) :
                 JoinMatches(sql, k, b.join_clauses[k])
           /\ Times(sql, "LEFT") + Times(sql, "RIGHT") =
                 Cardinality({k \in 1..Len(b.join_clauses) :
                                 b.join_clauses[k][1] # "inner"})
           /\ OnceIff(sql, "WHERE", b.where_clauses # <<>>)
           /\ OnceIff(sql, "GROUP", b.group_by # <<>>)
           /\ OnceIff(sql, "HAVING", b.having_clauses # <<>>)
           /\ OnceIff(sql, "ORDER", b.order_by_clauses # <<>>)
           /\ OnceIff(sql, "LIMIT", b.limit # PyNone)
           /\ OnceIff(sql, "OFFSET", b.offset # PyNone)

C37_Witness ==
    /\ Rendered
    /\ driver = "sqlite"
    /\ returned.sql =
          <<"SELECT", "*", "FROM", "users", "RIGHT", "JOIN", "posts", "ON",
            "users.id", "=", "posts.user_id", "HAVING", "n", "=", "?",
            "LIMIT", "2", "OFFSET", "2">>

\* what became of the statements thread t sent: the first COMMIT or
\* ROLLBACK the backend received after a statement decides (a PostgreSQL
\* statement sent in autocommit mode is kept at once and is left out)
ThreadLog(t) == ThreadConn(t).backend
ThreadOwners(t) == threads.owners[ConnOf(threads.shared, t)]
HeldBack(bk, i) ==
    ~(/\ driver = "postgresql"
      /\ \A j \in 1..(i - 1) :
            bk[j] = "BEGIN" => \E k \in (j + 1)..(i - 1) : bk[k] \in Enders)
DecidedAt(bk, i, e) ==
    /\ e \in (i + 1)..Len(bk)
    /\ bk[e] \in Enders
    /\ \A k \in (i + 1)..(e - 1) : bk[k] \notin Enders
StatementsOf(t) ==
    {i \in 1..Len(ThreadLog(t)) :
        /\ ThreadLog(t)[i] = "STATEMENT"
        /\ ThreadOwners(t)[i].by = t
        /\ HeldBack(ThreadLog(t), i)}
\* a statement of t was undone by a rollback another thread called
Discarded(t) ==
    \E i \in StatementsOf(t) : \E e \in 1..Len(ThreadLog(t)) :
        /\ DecidedAt(ThreadLog(t), i, e)
        /\ ThreadLog(t)[e] = "ROLLBACK"
        /\ ThreadOwners(t)[e].by # t
\* a statement of t was committed while another thread's scope on the
\* same connection was open
CommittedInOpenScope(t) ==
    \E i \in StatementsOf(t) : \E e \in 1..Len(ThreadLog(t)) :
        /\ DecidedAt(ThreadLog(t), i, e)
        /\ ThreadLog(t)[e] = "COMMIT"
        /\ \E u \in ThreadOwners(t)[e].open :
              u # t /\ ConnOf(threads.shared, u) = ConnOf(threads.shared, t)
Anomaly(t) ==
    threads.pc[t] = "done" /\ (Discarded(t) \/ CommittedInOpenScope(t))

====
